---- MODULE Spec2Model ----
(***************************************************************************)
(* State-machine model of src/noveldownloader.js: the download job run by  *)
(* processDownloadCore (sequential fetch loop, per-item classification by  *)
(* fetchNovelContent, cancellation through the progress modal's close      *)
(* button, and the post-loop report / completion dialog).                  *)
(*                                                                         *)
(* JavaScript runs handlers to completion, so one action is one stretch of *)
(* code between two suspension points (await fetch, await response.text,   *)
(* await setTimeout, a timer callback, a click handler).                   *)
(***************************************************************************)
EXTENDS Integers, Sequences, FiniteSets, TLC

VARIABLES
    episodeUrlsToProcess, \* argument: the ordered URL list of the job
    saveAsZip,            \* argument: TRUE = archive mode, FALSE = merged text
    pc,                   \* position of processDownloadCore
    i,                    \* loop index of the for loop (0-based)
    isDownloadCancelled,  \* the cancellation flag
    completedEpisodes,    \* counter of successful items
    skippedChapters,      \* sequence of [url, reason] (403)
    incompleteChapters,   \* sequence of [url, reason] (other failures)
    novelText,            \* merged mode: sequence of appended chapter sections
    zip,                  \* archive mode: set of [name, content] entries
    modalAttached,        \* the progress modal is a child of document.body
    isBusyRef,            \* isBusyRef.value
    confirmOpen,          \* number of open "Cancel Download" confirmation dialogs
    exchange,             \* the network exchange of the fetch in flight
    inflight,             \* loop indices whose fetch is in flight
    fetchLog,             \* network requests issued, as loop indices, in order
    results,              \* values returned by fetchNovelContent, in order
    lastExchange,         \* the exchange that produced the last returned result
    progressLog,          \* arguments of progressTracker.update, in order
    delaysElapsed,        \* number of inter-item delays that have fully elapsed
    cancelAt,             \* where the job was when the flag was first set
    reportContent,        \* the generated report, or NoReport
    reportDownloaded,     \* merged mode: the report was offered as its own file
    artifact,             \* what the Download button handed to the user
    notifications,        \* titles of the notifications shown
    uncaught,             \* number of uncaught DOM exceptions (removeChild)
    statsProgress,        \* stats.progress of the job's last tracker update
    originalFileNameForReport, \* name of the report file a retry job came from
    totalItems,           \* createProgressTracker: the argument
    elapsed,              \* createProgressTracker: Date.now() - startTime, in ms
    processingTimes,      \* createProgressTracker: the window of samples
    stats,                \* createProgressTracker: what the last update returned
    updatedWith,          \* createProgressTracker: the argument of the last update
    shifted,              \* createProgressTracker: a sample has been evicted
    fileContent,          \* parseReportFile: the text of the uploaded file
    urlsToRetry,          \* parseReportFile: the URLs returned
    codec,                \* position of the report round trip
    reportItems,          \* the skipped and incomplete lists a report is made of
    call,                 \* the function called on its own, and whether it returned
    callArgs,             \* its arguments
    callResult,           \* what it returned
    other                 \* the locals of a second job, the one not taking steps

jobVars == << episodeUrlsToProcess, saveAsZip, pc, i, isDownloadCancelled,
              completedEpisodes, skippedChapters, incompleteChapters, novelText,
              zip, modalAttached, isBusyRef, confirmOpen, exchange, inflight,
              fetchLog, results, lastExchange, progressLog, delaysElapsed,
              cancelAt, reportContent, reportDownloaded, artifact, notifications,
              uncaught, statsProgress, originalFileNameForReport >>

trackerVars == << totalItems, elapsed, processingTimes, stats, updatedWith,
                 shifted >>

codecVars == << fileContent, urlsToRetry, codec, reportItems >>

callVars == << call, callArgs, callResult >>

vars == << jobVars, trackerVars, codecVars, callVars, other >>

-----------------------------------------------------------------------------
(* Bounds *)

MaxUrls == 2
MaxConfirm == 1

(* Input alphabets *)

Urls ==
    {<<"h", "t", "t", "p", "s", ":", "/", "/", "b", "o", "o", "k", "t", "o", "k",
       "i", "/", "1">>,
     <<"h", "t", "t", "p", "s", ":", "/", "/", "b", "o", "o", "k", "t", "o", "k",
       "i", "/", "2">>}
Statuses == {200, 403, 404, 500}
FetchMessage == "Failed to fetch"
TextMessage == "network error"

UntitledEpisode == <<"U", "n", "t", "i", "t", "l", "e", "d">>
TitleA == <<"a", "/">>
TitleB == <<"a", "_">>
title == <<"n">>

SeqsUpTo(S, n) == UNION {[1..k -> S] : k \in 0..n}

-----------------------------------------------------------------------------
(* Network exchanges: what fetch(url) and response.text() deliver. *)

NoExchange == [kind |-> "none"]

\* fetch(url) rejects (network failure)
FetchThrows == [kind |-> "fetch_throws", message |-> FetchMessage]

\* fetch(url) resolves with a status; the body is not read yet
ResponseHead(s) == [kind |-> "head", status |-> s]

\* the title element found by the selector list, or none
TitleElements ==
    {[found |-> FALSE, attr |-> <<>>, text |-> <<>>]} \cup
    [found : {TRUE}, attr : {<<>>, TitleA}, text : {<<>>, TitleB}]

\* response.text() rejects
BodyThrows(s) == [kind |-> "text_throws", status |-> s, message |-> TextMessage]

\* response.text() resolves and the page is parsed
Page(s, t, c) == [kind |-> "page", status |-> s, titleElement |-> t, hasContent |-> c]

Ok(s) == s >= 200 /\ s <= 299

-----------------------------------------------------------------------------
(* fetchNovelContent, lines 1-98 *)

\* lines 42-49: attribute, else text, else the placeholder
EpisodeTitle(t) ==
    IF ~t.found THEN UntitledEpisode
    ELSE IF t.attr # <<>> THEN t.attr
    ELSE IF t.text # <<>> THEN t.text
    ELSE UntitledEpisode

\* mutant: the generic !response.ok test comes before the 403 test
fetchNovelContentOkFirst(url, x) ==
    IF x.kind = "fetch_throws"
    THEN [status |-> "fetch_error", url |-> url, message |-> x.message]
    ELSE IF ~Ok(x.status)
    THEN [status |-> "network_error", url |-> url, statusCode |-> x.status]
    ELSE IF x.kind = "text_throws"
    THEN [status |-> "fetch_error", url |-> url, message |-> x.message]
    ELSE IF ~x.hasContent
    THEN [status |-> "no_content_found", url |-> url]
    ELSE [status |-> "success",
          episodeTitle |-> EpisodeTitle(x.titleElement),
          content |-> [page |-> url]]

\* the result object returned for a settled exchange
fetchNovelContent(url, x) ==
    IF x.kind = "fetch_throws"
    THEN [status |-> "fetch_error", url |-> url, message |-> x.message]
    ELSE IF x.status = 403
    THEN [status |-> "captcha", url |-> url]
    ELSE IF ~Ok(x.status)
    THEN [status |-> "network_error", url |-> url, statusCode |-> x.status]
    ELSE IF x.kind = "text_throws"
    THEN [status |-> "fetch_error", url |-> url, message |-> x.message]
    ELSE IF ~x.hasContent
    THEN [status |-> "no_content_found", url |-> url]
    ELSE [status |-> "success",
          episodeTitle |-> EpisodeTitle(x.titleElement),
          content |-> [page |-> url]]

\* the exchange is decided by the status line alone (lines 7-18)
DecidedByHead(s) == s = 403 \/ ~Ok(s)

-----------------------------------------------------------------------------
(* Numbers: exact fractions [n, d] with d > 0 stand for the JavaScript       *)
(* numbers the tracker computes                                              *)

RECURSIVE Gcd(_, _)
Gcd(a, b) == IF b = 0 THEN a ELSE Gcd(b, a % b)

Abs(a) == IF a < 0 THEN -a ELSE a

Frac(n, d) ==
    LET g == Gcd(Abs(n), d) IN [n |-> n \div g, d |-> d \div g]

FracAdd(a, b) == Frac(a.n * b.d + b.n * a.d, a.d * b.d)

RECURSIVE FracSum(_)
FracSum(w) == IF w = <<>> THEN Frac(0, 1) ELSE FracAdd(Head(w), FracSum(Tail(w)))

\* Math.floor(q / k) and Math.ceil(q / k) for an integer k > 0
FloorDiv(q, k) == q.n \div (q.d * k)
CeilDiv(q, k) == -((-q.n) \div (q.d * k))

\* Number.prototype.toFixed(digits) of q >= 0, as an integer count of the
\* last decimal place (ties go up)
ToFixed(q, scale) == (2 * q.n * scale + q.d) \div (2 * q.d)

-----------------------------------------------------------------------------
(* createProgressTracker, lines 563-604, and formatTime, lines 611-623 *)

MAX_SAMPLES == 5

\* lines 611-623
formatTime(ms) ==
    IF ms.n < 60000 * ms.d
    THEN [unit |-> "s", a |-> CeilDiv(ms, 1000), b |-> 0]
    ELSE IF ms.n < 3600000 * ms.d
    THEN [unit |-> "m s", a |-> FloorDiv(ms, 60000),
          b |-> FloorDiv(ms, 1000) - 60 * FloorDiv(ms, 60000)]
    ELSE [unit |-> "h m", a |-> FloorDiv(ms, 3600000),
          b |-> FloorDiv(ms, 60000) - 60 * FloorDiv(ms, 3600000)]
\* mutant: the percentage of what remains
ProgressOfRemaining(completedItems, total) ==
    IF total = 0
    THEN [text |-> IF completedItems = 0 THEN "NaN" ELSE "Infinity", tenths |-> 0]
    ELSE [text |-> "number",
          tenths |-> ToFixed(Frac((total - completedItems) * 100, total), 10)]

\* lines 570 and 597: ((completedItems / totalItems) * 100).toFixed(1); a
\* division by zero gives NaN (0 / 0) or Infinity
Progress(completedItems, total) ==
    IF total = 0
    THEN [text |-> IF completedItems = 0 THEN "NaN" ELSE "Infinity", tenths |-> 0]
    ELSE [text |-> "number", tenths |-> ToFixed(Frac(completedItems * 100, total), 10)]
\* mutant: a full window drops the new sample (pop instead of shift)
WindowDropsNewest(window, el, completedItems) ==
    IF completedItems > 0
    THEN LET pushed == Append(window, Frac(el, completedItems))
         IN  IF Len(pushed) > MAX_SAMPLES THEN SubSeq(pushed, 1, MAX_SAMPLES)
             ELSE pushed
    ELSE window

\* lines 575-583: the window after update(completedItems) at time el
WindowAfter(window, el, completedItems) ==
    IF completedItems > 0
    THEN LET pushed == Append(window, Frac(el, completedItems))
         IN  IF Len(pushed) > MAX_SAMPLES THEN Tail(pushed) ELSE pushed
    ELSE window

\* lines 586-590
AvgTimePerItem(window) ==
    IF Len(window) > 0
    THEN LET sum == FracSum(window) IN Frac(sum.n, sum.d * Len(window))
    ELSE Frac(0, 1)

\* lines 593-601: the object update returns
StatsOf(total, el, window, completedItems) ==
    LET avg == AvgTimePerItem(window)
        remainingItems == total - completedItems
    IN  [progress |-> Progress(completedItems, total),
         remaining |-> formatTime(Frac(avg.n * remainingItems, avg.d)),
         elapsed |-> formatTime(Frac(el, 1)),
         speed |-> IF avg.n > 0 THEN ToFixed(Frac(1000 * avg.d, avg.n), 100) ELSE 0]

NoStats == [progress |-> [text |-> "none", tenths |-> 0]]

-----------------------------------------------------------------------------
(* Helpers of processDownloadCore *)
\* mutant: without the g flag, only the first invalid character is replaced
sanitizeFirstOnly(name) ==
    [k \in DOMAIN name |->
        IF name[k] \in {"/", "\\", "?", "%", "*", ":", "|", "\"", "<", ">"}
           /\ \A m \in 1..(k - 1) :
                 name[m] \notin {"/", "\\", "?", "%", "*", ":", "|", "\"", "<", ">"}
        THEN "_" ELSE name[k]]

InvalidChars == {"/", "\\", "?", "%", "*", ":", "|", "\"", "<", ">"}

\* line 649: every invalid character becomes "_"
sanitizeFilename(name) ==
    [k \in DOMAIN name |-> IF name[k] \in InvalidChars THEN "_" ELSE name[k]]

\* JSZip.file(name, data): an entry of the same name is replaced
ZipFile(z, name, data) ==
    {e \in z : e.name # name} \cup {[name |-> name, content |-> data]}

Reason(label, code, message) == [label |-> label, code |-> code, message |-> message]

\* mutant: the new section is put in front of the text
NovelTextPrepended(r, text) ==
    IF r.status = "success" /\ ~saveAsZip
    THEN <<[title |-> r.episodeTitle, content |-> r.content]>> \o text
    ELSE text

\* lines 846-855: the success branch, merged mode
NovelTextAfter(r, text) ==
    IF r.status = "success" /\ ~saveAsZip
    THEN Append(text, [title |-> r.episodeTitle, content |-> r.content])
    ELSE text

\* lines 846-855: the success branch, archive mode
ZipAfter(r, z) ==
    IF r.status = "success" /\ saveAsZip
    THEN ZipFile(z, sanitizeFilename(r.episodeTitle) \o <<".txt">>, r.content)
    ELSE z

\* mutant: the counter is incremented outside the success branch
CompletedAlways(r, c) == c + 1

\* line 855
CompletedAfter(r, c) == IF r.status = "success" THEN c + 1 ELSE c
\* mutant: the 403 branch records the entry twice
SkippedTwice(r, u, s) ==
    IF r.status = "captcha"
    THEN s \o << [url |-> u, reason |-> Reason("CAPTCHA (403)", 0, "")],
                 [url |-> u, reason |-> Reason("CAPTCHA (403)", 0, "")] >>
    ELSE s

\* mutant: the 403 branch logs but records nothing
SkippedNotRecorded(r, u, s) == s

\* lines 856-858
SkippedAfter(r, u, s) ==
    IF r.status = "captcha"
    THEN Append(s, [url |-> u, reason |-> Reason("CAPTCHA (403)", 0, "")])
    ELSE s

\* mutant: the no_content_found branch is missing
IncompleteWithoutNoContent(r, u, s) ==
    IF r.status = "network_error"
    THEN Append(s, [url |-> u, reason |-> Reason("Network Error", r.statusCode, "")])
    ELSE IF r.status = "fetch_error"
    THEN Append(s, [url |-> u, reason |-> Reason("Fetch Error", 0, r.message)])
    ELSE s

\* lines 859-868
IncompleteAfter(r, u, s) ==
    IF r.status = "network_error"
    THEN Append(s, [url |-> u, reason |-> Reason("Network Error", r.statusCode, "")])
    ELSE IF r.status = "no_content_found"
    THEN Append(s, [url |-> u, reason |-> Reason("No Content Found", 0, "")])
    ELSE IF r.status = "fetch_error"
    THEN Append(s, [url |-> u, reason |-> Reason("Fetch Error", 0, r.message)])
    ELSE s
\* mutant: an empty section is left out, header and all
ReportOmitsEmptySection(skipped, incomplete) ==
    (IF Len(skipped) > 0
     THEN <<[kind |-> "header", text |-> "--- Skipped Chapters (CAPTCHA / 403) ---"]>>
          \o [k \in DOMAIN skipped |->
                 [kind |-> "entry", url |-> skipped[k].url, reason |-> skipped[k].reason]]
     ELSE <<>>)
    \o <<[kind |-> "blank"]>>
    \o (IF Len(incomplete) > 0
        THEN <<[kind |-> "header", text |-> "--- Incomplete/Failed Chapters ---"]>>
             \o [k \in DOMAIN incomplete |->
                    [kind |-> "entry", url |-> incomplete[k].url,
                     reason |-> incomplete[k].reason]]
        ELSE <<>>)

\* lines 909-921: the report, line by line
ReportLines(items) ==
    [k \in DOMAIN items |->
        [kind |-> "entry", url |-> items[k].url, reason |-> items[k].reason]]

ReportOf(skipped, incomplete) ==
    <<[kind |-> "header", text |-> "--- Skipped Chapters (CAPTCHA / 403) ---"]>>
    \o (IF Len(skipped) > 0 THEN ReportLines(skipped)
        ELSE <<[kind |-> "sentinel", text |-> "No chapters skipped due to CAPTCHA."]>>)
    \o <<[kind |-> "blank"],
         [kind |-> "header", text |-> "--- Incomplete/Failed Chapters ---"]>>
    \o (IF Len(incomplete) > 0 THEN ReportLines(incomplete)
        ELSE <<[kind |-> "sentinel", text |-> "No chapters incomplete or failed."]>>)

NoReport == <<>>

-----------------------------------------------------------------------------
(* Text: a JavaScript string is the sequence of its characters *)

\* the characters of the string literals of lines 857-866, 909-920 and 2205
\* and of the two exception messages
Chars(s) ==
    CASE s = "--- Skipped Chapters (CAPTCHA / 403) ---" ->
             <<"-", "-", "-", " ", "S", "k", "i", "p", "p", "e", "d", " ",
               "C", "h", "a", "p", "t", "e", "r", "s", " ", "(", "C", "A",
               "P", "T", "C", "H", "A", " ", "/", " ", "4", "0", "3", ")",
               " ", "-", "-", "-">>
      [] s = "No chapters skipped due to CAPTCHA." ->
             <<"N", "o", " ", "c", "h", "a", "p", "t", "e", "r", "s", " ",
               "s", "k", "i", "p", "p", "e", "d", " ", "d", "u", "e", " ",
               "t", "o", " ", "C", "A", "P", "T", "C", "H", "A", ".">>
      [] s = "--- Incomplete/Failed Chapters ---" ->
             <<"-", "-", "-", " ", "I", "n", "c", "o", "m", "p", "l", "e",
               "t", "e", "/", "F", "a", "i", "l", "e", "d", " ", "C", "h",
               "a", "p", "t", "e", "r", "s", " ", "-", "-", "-">>
      [] s = "No chapters incomplete or failed." ->
             <<"N", "o", " ", "c", "h", "a", "p", "t", "e", "r", "s", " ",
               "i", "n", "c", "o", "m", "p", "l", "e", "t", "e", " ", "o",
               "r", " ", "f", "a", "i", "l", "e", "d", ".">>
      [] s = "URL: " ->
             <<"U", "R", "L", ":", " ">>
      [] s = " (Reason: " ->
             <<" ", "(", "R", "e", "a", "s", "o", "n", ":", " ">>
      [] s = ")" ->
             <<")">>
      [] s = "CAPTCHA (403)" ->
             <<"C", "A", "P", "T", "C", "H", "A", " ", "(", "4", "0", "3",
               ")">>
      [] s = "Network Error (" ->
             <<"N", "e", "t", "w", "o", "r", "k", " ", "E", "r", "r", "o",
               "r", " ", "(">>
      [] s = "No Content Found" ->
             <<"N", "o", " ", "C", "o", "n", "t", "e", "n", "t", " ", "F",
               "o", "u", "n", "d">>
      [] s = "Fetch Error: " ->
             <<"F", "e", "t", "c", "h", " ", "E", "r", "r", "o", "r", ":",
               " ">>
      [] s = "Failed to fetch" ->
             <<"F", "a", "i", "l", "e", "d", " ", "t", "o", " ", "f", "e",
               "t", "c", "h">>
      [] s = "network error" ->
             <<"n", "e", "t", "w", "o", "r", "k", " ", "e", "r", "r", "o",
               "r">>
      [] s = "http" ->
             <<"h", "t", "t", "p">>
      [] s = "s" ->
             <<"s">>
      [] s = "://" ->
             <<":", "/", "/">>

\* String(n) of a non-negative integer, as in `${result.statusCode}`
Digit(d) == <<"0", "1", "2", "3", "4", "5", "6", "7", "8", "9">>[d + 1]

RECURSIVE Digits(_)
Digits(n) == IF n < 10 THEN <<Digit(n)>> ELSE Append(Digits(n \div 10), Digit(n % 10))

\* lines 857-866: the reason string of an item
ReasonText(reason) ==
    IF reason.label = "Network Error"
    THEN Chars("Network Error (") \o Digits(reason.code) \o Chars(")")
    ELSE IF reason.label = "Fetch Error"
    THEN Chars("Fetch Error: ") \o Chars(reason.message)
    ELSE Chars(reason.label)

\* lines 909-920: one line of the report, without its line break
LineText(l) ==
    IF l.kind = "entry"
    THEN Chars("URL: ") \o l.url \o Chars(" (Reason: ") \o ReasonText(l.reason)
         \o Chars(")")
    ELSE IF l.kind = "blank" THEN <<>>
    ELSE Chars(l.text)

\* lines 909-920: the report as one string, every line ended by "\n"
RECURSIVE ReportText(_)
ReportText(report) ==
    IF report = <<>> THEN <<>>
    ELSE LineText(Head(report)) \o <<"\n">> \o ReportText(Tail(report))

-----------------------------------------------------------------------------
(* parseReportFile, lines 2201-2211 *)

\* the characters the class \s of line 2205 matches, among those of the model
Whitespace == {" ", "\t", "\r", "\n"}

\* the first line break of text at or after position k, 0 if there is none
RECURSIVE NextBreak(_, _)
NextBreak(text, k) ==
    IF k > Len(text) THEN 0
    ELSE IF text[k] = "\n" THEN k
    ELSE NextBreak(text, k + 1)

RECURSIVE Split(_)

\* text cut at its first line break p
SplitAt(text, p) ==
    IF p = 0 THEN <<text>>
    ELSE <<SubSeq(text, 1, p - 1)>> \o Split(SubSeq(text, p + 1, Len(text)))

\* line 2203: fileContent.split('\n')
Split(text) == SplitAt(text, NextBreak(text, 1))

\* the word w stands in line at position p
WordAt(line, p, w) ==
    /\ p + Len(w) - 1 <= Len(line)
    /\ \A k \in 1..Len(w) : line[p + k - 1] = w[k]

\* line 2205: the two ways `URL: https?:\/\/` can match
MarkerHttps == Chars("URL: ") \o Chars("http") \o Chars("s") \o Chars("://")
MarkerHttp == Chars("URL: ") \o Chars("http") \o Chars("://")

\* line 2205: where [^\s]+ starts when `URL: https?:\/\/` matches at p, else 0
SchemeEnd(line, p) ==
    IF WordAt(line, p, MarkerHttps) THEN p + Len(MarkerHttps)
    ELSE IF WordAt(line, p, MarkerHttp) THEN p + Len(MarkerHttp)
    ELSE 0

\* line 2205: the whole pattern matches at p
MatchesAt(line, p) ==
    LET e == SchemeEnd(line, p)
    IN  e # 0 /\ e <= Len(line) /\ line[e] \notin Whitespace

\* the leftmost position at or after p where the pattern matches, 0 if none
RECURSIVE FirstMatch(_, _)
FirstMatch(line, p) ==
    IF p > Len(line) THEN 0
    ELSE IF MatchesAt(line, p) THEN p
    ELSE FirstMatch(line, p + 1)

\* [^\s]+ is greedy: the end of the run of non-whitespace that holds e
RECURSIVE RunEnd(_, _)
\* mutant: the group runs to the end of the line (.+ for [^\s]+)
RunEndAtLineEnd(line, e) == Len(line)

RunEnd(line, e) ==
    IF e < Len(line) /\ line[e + 1] \notin Whitespace THEN RunEnd(line, e + 1)
    ELSE e

NoMatch == <<>>

\* the group of the match at p; NoMatch for p = 0
GroupAt(line, p) ==
    IF p = 0 THEN NoMatch
    ELSE SubSeq(line, p + Len(Chars("URL: ")), RunEnd(line, SchemeEnd(line, p)))

\* line 2205: match[1] of line.match(/URL: (https?:\/\/[^\s]+)/), the group of
\* the leftmost match; NoMatch for null
MatchUrl(line) == GroupAt(line, FirstMatch(line, 1))

\* lines 2206-2208: a match with a non-empty group is pushed
Pushed(match) == IF match # NoMatch THEN <<match>> ELSE <<>>

\* lines 2204-2209: the loop over the lines
RECURSIVE UrlsOfLines(_)
UrlsOfLines(lines) ==
    IF lines = <<>> THEN <<>>
    ELSE Pushed(MatchUrl(Head(lines))) \o UrlsOfLines(Tail(lines))

parseReportFile(content) == UrlsOfLines(Split(content))

\* originalFileNameForReport = null, the default of line 746
NoFile == <<>>

\* file.name of the report file chosen in the retry dialog (line 2159)
RetryFileName == <<"r", ".txt">>

\* line 923
reportFileName ==
    sanitizeFilename(title)
    \o (IF originalFileNameForReport # NoFile
        THEN <<"_retry_of_">> \o sanitizeFilename(originalFileNameForReport)
        ELSE <<>>)
    \o <<"_report", ".txt">>

NoArtifact == [kind |-> "none"]
NotCancelled == [set |-> FALSE, i |-> 0, pc |-> "none"]

-----------------------------------------------------------------------------
(* processDownloadCore, lines 739-1132 *)

\* mutant: the flag is never tested
LoopIgnoresCancel(k, cancelled) == k < Len(episodeUrlsToProcess)

\* lines 828-832: the loop goes on to the item at index k
LoopContinues(k, cancelled) == k < Len(episodeUrlsToProcess) /\ ~cancelled

\* mutant: no early return at line 901, a cancelled job builds its report too
PostLoopReportsWhenCancelled(z, attached) ==
    /\ isBusyRef' = FALSE
    /\ inflight' = inflight
    /\ fetchLog' = fetchLog
    /\ exchange' = NoExchange
    /\ reportContent' = ReportOf(skippedChapters, incompleteChapters)
    /\ IF saveAsZip
       THEN /\ zip' = ZipFile(z, reportFileName,
                              ReportOf(skippedChapters, incompleteChapters))
            /\ reportDownloaded' = FALSE
       ELSE /\ zip' = z
            /\ reportDownloaded' = TRUE
    /\ IF isDownloadCancelled
       THEN /\ notifications' = notifications \cup {"Download Cancelled"}
            /\ pc' = "cancelled"
            /\ IF attached
               THEN modalAttached' = FALSE /\ uncaught' = uncaught
               ELSE modalAttached' = attached /\ uncaught' = uncaught + 1
       ELSE /\ pc' = "generated"
            /\ modalAttached' = attached
            /\ UNCHANGED <<notifications, uncaught>>
\* mutant: the report is downloaded as a file of its own in both modes
PostLoopReportSeparate(z, attached) ==
    /\ isBusyRef' = FALSE
    /\ inflight' = inflight
    /\ fetchLog' = fetchLog
    /\ exchange' = NoExchange
    /\ IF isDownloadCancelled
       THEN /\ notifications' = notifications \cup {"Download Cancelled"}
            /\ pc' = "cancelled"
            /\ IF attached
               THEN modalAttached' = FALSE /\ uncaught' = uncaught
               ELSE modalAttached' = attached /\ uncaught' = uncaught + 1
            /\ zip' = z
            /\ UNCHANGED <<reportContent, reportDownloaded>>
       ELSE /\ reportContent' = ReportOf(skippedChapters, incompleteChapters)
            /\ zip' = z
            /\ reportDownloaded' = TRUE
            /\ pc' = "generated"
            /\ modalAttached' = attached
            /\ UNCHANGED <<notifications, uncaught>>

\* lines 889-934: after the loop; z is the archive so far, attached tells
\* whether the progress modal is in the document
PostLoop(z, attached) ==
    /\ isBusyRef' = FALSE
    /\ inflight' = inflight
    /\ fetchLog' = fetchLog
    /\ exchange' = NoExchange
    /\ IF isDownloadCancelled
       THEN /\ notifications' = notifications \cup {"Download Cancelled"}
            /\ pc' = "cancelled"
            \* line 900: removeChild throws when the modal is already detached
            /\ IF attached
               THEN modalAttached' = FALSE /\ uncaught' = uncaught
               ELSE modalAttached' = attached /\ uncaught' = uncaught + 1
            /\ zip' = z
            /\ UNCHANGED <<reportContent, reportDownloaded>>
       ELSE /\ reportContent' = ReportOf(skippedChapters, incompleteChapters)
            /\ IF saveAsZip
               THEN /\ zip' = ZipFile(z, reportFileName,
                                      ReportOf(skippedChapters, incompleteChapters))
                    /\ reportDownloaded' = FALSE
               ELSE /\ zip' = z
                    /\ reportDownloaded' = TRUE
            /\ pc' = "generated"
            /\ modalAttached' = attached
            /\ UNCHANGED <<notifications, uncaught>>

\* lines 828-844: the top of the loop with i = k
LoopHead(k, z, attached) ==
    /\ i' = k
    /\ IF LoopContinues(k, isDownloadCancelled)
       THEN /\ pc' = "fetch"
            /\ fetchLog' = Append(fetchLog, k)
            /\ inflight' = inflight \cup {k}
            /\ exchange' = NoExchange
            /\ isBusyRef' = TRUE
            /\ zip' = z
            /\ modalAttached' = attached
            /\ UNCHANGED <<reportContent, reportDownloaded, notifications, uncaught>>
       ELSE PostLoop(z, attached)

\* lines 637, 776 and 782-783: the notification titles of the two ways the
\* archiving library can fail to load, e.message + "ZIP Library Load Failed"
LoadFailures ==
    {"Failed to load script: https://cdnjs.cloudflare.com/ajax/libs/jszip/3.10.1/jszip.min.jsZIP Library Load Failed",
     "JSZip did not become defined within the expected time.ZIP Library Load Failed"}

\* mutant: the progress modal is created before the library is loaded
StartCreatesModalFirst ==
    /\ statsProgress' = statsProgress
    /\ UNCHANGED <<originalFileNameForReport, trackerVars, codecVars, callVars, other>>
    /\ pc = "init"
    /\ \/ /\ saveAsZip
          /\ pc' = "setup_failed"
          /\ \E m \in LoadFailures : notifications' = notifications \cup {m}
          /\ modalAttached' = TRUE
          /\ isBusyRef' = TRUE
          /\ UNCHANGED <<i, inflight, fetchLog, exchange, zip,
                         reportContent, reportDownloaded, uncaught>>
       \/ LoopHead(0, {}, TRUE)
    /\ UNCHANGED <<episodeUrlsToProcess, saveAsZip, isDownloadCancelled,
                   completedEpisodes, skippedChapters, incompleteChapters, novelText,
                   confirmOpen, results, lastExchange, progressLog, delaysElapsed,
                   cancelAt, artifact>>

\* lines 758-826, then the first loop test
Start ==
    /\ statsProgress' = statsProgress
    /\ UNCHANGED <<originalFileNameForReport, trackerVars, codecVars, callVars, other>>
    /\ pc = "init"
    /\ \/ /\ saveAsZip
          \* lines 781-791: the archiving library failed to load
          /\ pc' = "setup_failed"
          /\ \E m \in LoadFailures : notifications' = notifications \cup {m}
          /\ UNCHANGED <<i, isBusyRef, inflight, fetchLog, exchange, zip, modalAttached,
                         reportContent, reportDownloaded, uncaught>>
       \/ LoopHead(0, {}, TRUE)
    /\ UNCHANGED <<episodeUrlsToProcess, saveAsZip, isDownloadCancelled,
                   completedEpisodes, skippedChapters, incompleteChapters, novelText,
                   confirmOpen, results, lastExchange, progressLog, delaysElapsed,
                   cancelAt, artifact>>
\* mutant: the tracker is updated with the number of successes
RecordItemCountsCompleted(r, x) ==
    /\ completedEpisodes' = CompletedAfter(r, completedEpisodes)
    /\ skippedChapters' = SkippedAfter(r, episodeUrlsToProcess[i + 1], skippedChapters)
    /\ incompleteChapters' =
           IncompleteAfter(r, episodeUrlsToProcess[i + 1], incompleteChapters)
    /\ novelText' = NovelTextAfter(r, novelText)
    /\ zip' = ZipAfter(r, zip)
    /\ progressLog' = Append(progressLog, CompletedAfter(r, completedEpisodes))
    /\ statsProgress' = Progress(CompletedAfter(r, completedEpisodes),
                                 Len(episodeUrlsToProcess))
    /\ results' = Append(results, r)
    /\ lastExchange' = x
    /\ exchange' = NoExchange
    /\ inflight' = inflight \ {i}

\* lines 846-883: the outcome r of the item at index i is recorded and the
\* progress tracker is updated
RecordItem(r, x) ==
    /\ completedEpisodes' = CompletedAfter(r, completedEpisodes)
    /\ skippedChapters' = SkippedAfter(r, episodeUrlsToProcess[i + 1], skippedChapters)
    /\ incompleteChapters' =
           IncompleteAfter(r, episodeUrlsToProcess[i + 1], incompleteChapters)
    /\ novelText' = NovelTextAfter(r, novelText)
    /\ zip' = ZipAfter(r, zip)
    /\ progressLog' = Append(progressLog, i + 1)
    /\ statsProgress' = Progress(i + 1, Len(episodeUrlsToProcess))
    /\ results' = Append(results, r)
    /\ lastExchange' = x
    /\ exchange' = NoExchange
    /\ inflight' = inflight \ {i}
\* mutant: a transport failure is not recorded, the same index is requested
\* again
SettleRetriesOnFetchError(r, x) ==
    /\ IF r.status = "fetch_error"
       THEN /\ pc' = "fetch"
            /\ fetchLog' = Append(fetchLog, i)
            /\ lastExchange' = x
            /\ exchange' = NoExchange
            /\ inflight' = inflight
            /\ UNCHANGED <<completedEpisodes, skippedChapters, incompleteChapters,
                           novelText, zip, progressLog, results, statsProgress>>
       ELSE RecordItem(r, x) /\ pc' = "delay" /\ fetchLog' = fetchLog
    /\ UNCHANGED <<episodeUrlsToProcess, saveAsZip, i, isDownloadCancelled,
                   modalAttached, isBusyRef, confirmOpen, delaysElapsed,
                   cancelAt, reportContent, reportDownloaded, artifact,
                   notifications, uncaught>>

\* mutant: a failed item skips the inter-item delay (a `continue` in the
\* failure branches)
SettleSkipsDelayOnFailure(r, x) ==
    /\ RecordItem(r, x)
    /\ IF r.status # "success" /\ LoopContinues(i + 1, isDownloadCancelled)
       THEN pc' = "fetch" /\ i' = i + 1 /\ fetchLog' = Append(fetchLog, i + 1)
       ELSE pc' = "delay" /\ i' = i /\ fetchLog' = fetchLog
    /\ UNCHANGED <<episodeUrlsToProcess, saveAsZip, isDownloadCancelled,
                   modalAttached, isBusyRef, confirmOpen, delaysElapsed,
                   cancelAt, reportContent, reportDownloaded, artifact,
                   notifications, uncaught>>

\* mutant: the outcome of the fetch in flight is dropped once the flag is set
SettleAbortsWhenCancelled(r, x) ==
    /\ IF isDownloadCancelled
       THEN /\ lastExchange' = x
            /\ exchange' = NoExchange
            /\ inflight' = inflight \ {i}
            /\ UNCHANGED <<completedEpisodes, skippedChapters, incompleteChapters,
                           novelText, zip, progressLog, results, statsProgress>>
       ELSE RecordItem(r, x)
    /\ pc' = "delay"
    /\ UNCHANGED <<episodeUrlsToProcess, saveAsZip, i, isDownloadCancelled,
                   modalAttached, isBusyRef, confirmOpen, fetchLog, delaysElapsed,
                   cancelAt, reportContent, reportDownloaded, artifact,
                   notifications, uncaught>>

\* mutant: a transport failure is thrown past the loop instead of being
\* recorded (no try/catch around the fetch)
SettleThrowsOnFetchError(r, x) ==
    /\ IF r.status = "fetch_error"
       THEN /\ pc' = "threw"
            /\ lastExchange' = x
            /\ exchange' = NoExchange
            /\ inflight' = inflight \ {i}
            /\ UNCHANGED <<completedEpisodes, skippedChapters, incompleteChapters,
                           novelText, zip, progressLog, results, statsProgress>>
       ELSE RecordItem(r, x) /\ pc' = "delay"
    /\ UNCHANGED <<episodeUrlsToProcess, saveAsZip, i, isDownloadCancelled,
                   modalAttached, isBusyRef, confirmOpen, fetchLog, delaysElapsed,
                   cancelAt, reportContent, reportDownloaded, artifact,
                   notifications, uncaught>>

\* lines 846-886: the outcome r of the item at index i is recorded, the
\* progress tracker is updated and the inter-item delay is started
Settle(r, x) ==
    /\ RecordItem(r, x)
    /\ pc' = "delay"
    /\ UNCHANGED <<episodeUrlsToProcess, saveAsZip, i, isDownloadCancelled,
                   modalAttached, isBusyRef, confirmOpen, fetchLog, delaysElapsed,
                   cancelAt, reportContent, reportDownloaded, artifact,
                   notifications, uncaught>>

\* line 4: fetch(url) settles; lines 7-18 and 93-97 decide at once, or the
\* body is awaited (line 20)
FetchSettles ==
    /\ UNCHANGED <<originalFileNameForReport, trackerVars, codecVars, callVars, other>>
    /\ pc = "fetch"
    /\ \E x \in {FetchThrows} \cup {ResponseHead(s) : s \in Statuses} :
          IF x.kind = "fetch_throws" \/ DecidedByHead(x.status)
          THEN Settle(fetchNovelContent(episodeUrlsToProcess[i + 1], x), x)
          ELSE /\ pc' = "text"
               /\ exchange' = x
               /\ statsProgress' = statsProgress
               /\ UNCHANGED <<episodeUrlsToProcess, saveAsZip, i, isDownloadCancelled,
                              completedEpisodes, skippedChapters, incompleteChapters,
                              novelText, zip, modalAttached, isBusyRef, confirmOpen,
                              inflight, fetchLog, results, lastExchange, progressLog,
                              delaysElapsed, cancelAt, reportContent,
                              reportDownloaded, artifact, notifications, uncaught>>

\* line 20: response.text() settles; lines 21-97 produce the result
TextSettles ==
    /\ UNCHANGED <<originalFileNameForReport, trackerVars, codecVars, callVars, other>>
    /\ pc = "text"
    /\ \E x \in {BodyThrows(exchange.status)} \cup
                {Page(exchange.status, t, c) : t \in TitleElements, c \in BOOLEAN} :
          Settle(fetchNovelContent(episodeUrlsToProcess[i + 1], x), x)
\* mutant: the loop has no i++, the delay is followed by the same item
DelayElapsesWithoutIncrement ==
    /\ statsProgress' = statsProgress
    /\ UNCHANGED <<originalFileNameForReport, trackerVars, codecVars, callVars, other>>
    /\ pc = "delay"
    /\ delaysElapsed' = delaysElapsed + 1
    /\ lastExchange' = NoExchange
    /\ LoopHead(i, zip, modalAttached)
    /\ UNCHANGED <<episodeUrlsToProcess, saveAsZip, isDownloadCancelled,
                   completedEpisodes, skippedChapters, incompleteChapters, novelText,
                   confirmOpen, results, progressLog, cancelAt, artifact>>

\* line 886 resolves: i++ and the next loop test
DelayElapses ==
    /\ statsProgress' = statsProgress
    /\ UNCHANGED <<originalFileNameForReport, trackerVars, codecVars, callVars, other>>
    /\ pc = "delay"
    /\ delaysElapsed' = delaysElapsed + 1
    /\ lastExchange' = NoExchange
    /\ LoopHead(i + 1, zip, modalAttached)
    /\ UNCHANGED <<episodeUrlsToProcess, saveAsZip, isDownloadCancelled,
                   completedEpisodes, skippedChapters, incompleteChapters, novelText,
                   confirmOpen, results, progressLog, cancelAt, artifact>>

\* lines 936-938 and 1130-1131: the 500 ms timer shows the completion dialog
TimerFires ==
    /\ statsProgress' = statsProgress
    /\ UNCHANGED <<originalFileNameForReport, trackerVars, codecVars, callVars, other>>
    /\ pc = "generated"
    /\ IF modalAttached
       THEN modalAttached' = FALSE /\ pc' = "dialog" /\ uncaught' = uncaught
       ELSE modalAttached' = modalAttached /\ pc' = "timer_failed"
            /\ uncaught' = uncaught + 1
    /\ UNCHANGED <<episodeUrlsToProcess, saveAsZip, i, isDownloadCancelled,
                   completedEpisodes, skippedChapters, incompleteChapters, novelText,
                   zip, isBusyRef, confirmOpen, exchange, inflight, fetchLog, results,
                   lastExchange, progressLog, delaysElapsed, cancelAt, reportContent,
                   reportDownloaded, artifact, notifications>>

\* lines 1032-1067: the Download button of the completion dialog
ClickDownload ==
    /\ statsProgress' = statsProgress
    /\ UNCHANGED <<originalFileNameForReport, trackerVars, codecVars, callVars, other>>
    /\ pc = "dialog"
    /\ pc' = "downloaded"
    /\ artifact' = IF saveAsZip THEN [kind |-> "zip", entries |-> zip]
                   ELSE [kind |-> "text", sections |-> novelText]
    /\ notifications' = notifications \cup {"Starting Download"}
    /\ UNCHANGED <<episodeUrlsToProcess, saveAsZip, i, isDownloadCancelled,
                   completedEpisodes, skippedChapters, incompleteChapters, novelText,
                   zip, modalAttached, isBusyRef, confirmOpen, exchange, inflight,
                   fetchLog, results, lastExchange, progressLog, delaysElapsed,
                   cancelAt, reportContent, reportDownloaded, uncaught>>

-----------------------------------------------------------------------------
(* The user: the close button of the progress modal, lines 812-817, and the  *)
(* confirmation dialog, lines 456-554                                        *)
\* mutant: the click on the close button sets the flag at once
ClickCloseCancels ==
    /\ statsProgress' = statsProgress
    /\ UNCHANGED <<originalFileNameForReport, trackerVars, codecVars, callVars, other>>
    /\ modalAttached
    /\ confirmOpen < MaxConfirm
    /\ confirmOpen' = confirmOpen + 1
    /\ isDownloadCancelled' = TRUE
    /\ UNCHANGED <<episodeUrlsToProcess, saveAsZip, pc, i,
                   completedEpisodes, skippedChapters, incompleteChapters, novelText,
                   zip, modalAttached, isBusyRef, exchange, inflight, fetchLog,
                   results, lastExchange, progressLog, delaysElapsed, cancelAt,
                   reportContent, reportDownloaded, artifact, notifications, uncaught>>

\* line 812-813: a click on the close button opens a confirmation dialog
ClickClose ==
    /\ statsProgress' = statsProgress
    /\ UNCHANGED <<originalFileNameForReport, trackerVars, codecVars, callVars, other>>
    /\ modalAttached
    /\ confirmOpen < MaxConfirm
    /\ confirmOpen' = confirmOpen + 1
    /\ UNCHANGED <<episodeUrlsToProcess, saveAsZip, pc, i, isDownloadCancelled,
                   completedEpisodes, skippedChapters, incompleteChapters, novelText,
                   zip, modalAttached, isBusyRef, exchange, inflight, fetchLog,
                   results, lastExchange, progressLog, delaysElapsed, cancelAt,
                   reportContent, reportDownloaded, artifact, notifications, uncaught>>
\* mutant: one flag for all jobs, the confirmation sets it for the other job too
ConfirmCancelShared ==
    /\ statsProgress' = statsProgress
    /\ UNCHANGED <<originalFileNameForReport, trackerVars, codecVars, callVars>>
    /\ other' = IF other.pc = "none" THEN other
                ELSE [other EXCEPT !.locals[5] = TRUE]
    /\ confirmOpen > 0
    /\ confirmOpen' = confirmOpen - 1
    /\ isDownloadCancelled' = TRUE
    /\ cancelAt' = IF isDownloadCancelled THEN cancelAt
                   ELSE [set |-> TRUE, i |-> i, pc |-> pc]
    /\ IF modalAttached
       THEN modalAttached' = FALSE /\ uncaught' = uncaught
       ELSE modalAttached' = modalAttached /\ uncaught' = uncaught + 1
    /\ UNCHANGED <<episodeUrlsToProcess, saveAsZip, pc, i, completedEpisodes,
                   skippedChapters, incompleteChapters, novelText, zip, isBusyRef,
                   exchange, inflight, fetchLog, results, lastExchange, progressLog,
                   delaysElapsed, reportContent, reportDownloaded, artifact,
                   notifications>>

\* lines 525-528 with onConfirm of lines 813-816
ConfirmCancel ==
    /\ statsProgress' = statsProgress
    /\ UNCHANGED <<originalFileNameForReport, trackerVars, codecVars, callVars, other>>
    /\ confirmOpen > 0
    /\ confirmOpen' = confirmOpen - 1
    /\ isDownloadCancelled' = TRUE
    /\ cancelAt' = IF isDownloadCancelled THEN cancelAt
                   ELSE [set |-> TRUE, i |-> i, pc |-> pc]
    /\ IF modalAttached
       THEN modalAttached' = FALSE /\ uncaught' = uncaught
       ELSE modalAttached' = modalAttached /\ uncaught' = uncaught + 1
    /\ UNCHANGED <<episodeUrlsToProcess, saveAsZip, pc, i, completedEpisodes,
                   skippedChapters, incompleteChapters, novelText, zip, isBusyRef,
                   exchange, inflight, fetchLog, results, lastExchange, progressLog,
                   delaysElapsed, reportContent, reportDownloaded, artifact,
                   notifications>>

\* lines 545-548: onCancel is not given
DeclineCancel ==
    /\ statsProgress' = statsProgress
    /\ UNCHANGED <<originalFileNameForReport, trackerVars, codecVars, callVars, other>>
    /\ confirmOpen > 0
    /\ confirmOpen' = confirmOpen - 1
    /\ UNCHANGED <<episodeUrlsToProcess, saveAsZip, pc, i, isDownloadCancelled,
                   completedEpisodes, skippedChapters, incompleteChapters, novelText,
                   zip, modalAttached, isBusyRef, exchange, inflight, fetchLog,
                   results, lastExchange, progressLog, delaysElapsed, cancelAt,
                   reportContent, reportDownloaded, artifact, notifications, uncaught>>

-----------------------------------------------------------------------------
(* The retry dialog, lines 2158-2192 *)

\* lines 2158-2187: a report file is chosen and read; the URLs found in it
\* become a new archive-mode job
RetryWith(found) ==
    /\ pc \in {"downloaded", "timer_failed"}
    /\ confirmOpen = 0
    /\ IF saveAsZip THEN artifact # NoArtifact ELSE reportDownloaded
    /\     IF Len(found) = 0
           THEN /\ notifications' = notifications \cup {"No URLs Found"}
                /\ UNCHANGED <<episodeUrlsToProcess, saveAsZip, pc, i,
                               isDownloadCancelled, completedEpisodes,
                               skippedChapters, incompleteChapters, novelText, zip,
                               modalAttached, isBusyRef, confirmOpen, exchange,
                               inflight, fetchLog, results, lastExchange,
                               progressLog, delaysElapsed, cancelAt, reportContent,
                               reportDownloaded, artifact, uncaught, statsProgress,
                               originalFileNameForReport>>
           ELSE \* line 2187: processDownloadCore(title, urlsToRetry, 5000, true, file.name)
                /\ episodeUrlsToProcess' = found
                /\ saveAsZip' = TRUE
                /\ originalFileNameForReport' = RetryFileName
                /\ pc' = "init"
                /\ i' = 0
                /\ isDownloadCancelled' = FALSE
                /\ completedEpisodes' = 0
                /\ skippedChapters' = <<>>
                /\ incompleteChapters' = <<>>
                /\ novelText' = <<>>
                /\ zip' = {}
                /\ modalAttached' = FALSE
                /\ isBusyRef' = FALSE
                /\ confirmOpen' = 0
                /\ exchange' = NoExchange
                /\ inflight' = {}
                /\ fetchLog' = <<>>
                /\ results' = <<>>
                /\ lastExchange' = NoExchange
                /\ progressLog' = <<>>
                /\ delaysElapsed' = 0
                /\ cancelAt' = NotCancelled
                /\ reportContent' = NoReport
                /\ reportDownloaded' = FALSE
                /\ artifact' = NoArtifact
                /\ notifications' = {}
                /\ uncaught' = 0
                /\ statsProgress' = NoStats.progress
    /\ UNCHANGED <<trackerVars, codecVars, callVars, other>>

\* line 2169: the file read is the report of the finished job
RetryFromFile == RetryWith(parseReportFile(ReportText(reportContent)))

-----------------------------------------------------------------------------

\* no tracker under study
TrackerIdle ==
    /\ totalItems = 0
    /\ elapsed = 0
    /\ processingTimes = <<>>
    /\ stats = NoStats
    /\ updatedWith = 0
    /\ shifted = FALSE

NoItems == [skipped |-> <<>>, incomplete |-> <<>>]

\* no function called on its own
CallIdle ==
    /\ call = "none"
    /\ callArgs = <<>>
    /\ callResult = <<>>

\* no second job
NoJob == [pc |-> "none", locals |-> <<>>]

\* no report file under study
CodecIdle ==
    /\ fileContent = <<>>
    /\ urlsToRetry = <<>>
    /\ codec = "idle"
    /\ reportItems = NoItems

\* lines 794-824: the locals of a job that has not taken a step
JobFresh ==
    /\ pc = "init"
    /\ i = 0
    /\ isDownloadCancelled = FALSE
    /\ completedEpisodes = 0
    /\ skippedChapters = <<>>
    /\ incompleteChapters = <<>>
    /\ novelText = <<>>
    /\ zip = {}
    /\ modalAttached = FALSE
    /\ isBusyRef = FALSE
    /\ confirmOpen = 0
    /\ exchange = NoExchange
    /\ inflight = {}
    /\ fetchLog = <<>>
    /\ results = <<>>
    /\ lastExchange = NoExchange
    /\ progressLog = <<>>
    /\ delaysElapsed = 0
    /\ cancelAt = NotCancelled
    /\ reportContent = NoReport
    /\ reportDownloaded = FALSE
    /\ artifact = NoArtifact
    /\ notifications = {}
    /\ uncaught = 0
    /\ statsProgress = NoStats.progress
    /\ originalFileNameForReport = NoFile

Init ==
    /\ episodeUrlsToProcess \in SeqsUpTo(Urls, MaxUrls)
    /\ saveAsZip \in BOOLEAN
    /\ JobFresh
    /\ TrackerIdle
    /\ CodecIdle
    /\ CallIdle
    /\ other = NoJob

\* no job under study
JobIdle ==
    /\ episodeUrlsToProcess = <<>>
    /\ saveAsZip = FALSE
    /\ JobFresh

-----------------------------------------------------------------------------
(* The progress tracker on its own, lines 563-604 *)

MaxTotal == 2
MaxElapsed == 3

\* Date.now() moves on by a millisecond
ClockAdvances ==
    /\ elapsed < MaxElapsed
    /\ elapsed' = elapsed + 1
    /\ UNCHANGED <<totalItems, processingTimes, stats, updatedWith, shifted>>
    /\ UNCHANGED <<jobVars, codecVars, callVars, other>>

\* lines 569-602: update(c)
update(c) ==
    /\ updatedWith' = c
    /\ processingTimes' = WindowAfter(processingTimes, elapsed, c)
    /\ shifted' = (shifted \/ (c > 0 /\ Len(processingTimes) = MAX_SAMPLES))
    /\ stats' = StatsOf(totalItems, elapsed,
                        WindowAfter(processingTimes, elapsed, c), c)
    /\ UNCHANGED <<totalItems, elapsed>>
    /\ UNCHANGED <<jobVars, codecVars, callVars, other>>

\* lines 563-567: createProgressTracker(totalItems)
TrackerInit ==
    /\ totalItems \in 0..MaxTotal
    /\ elapsed = 0
    /\ processingTimes = <<>>
    /\ stats = NoStats
    /\ updatedWith = 0
    /\ shifted = FALSE
    /\ JobIdle
    /\ CodecIdle
    /\ CallIdle
    /\ other = NoJob

\* line 870: the tracker is updated with a count between 0 and totalItems
Update == \E c \in 0..totalItems : update(c)

TrackerNext ==
    \/ ClockAdvances
    \/ Update

TrackerSpec == TrackerInit /\ [][TrackerNext]_vars

-----------------------------------------------------------------------------
(* The report on its own: written at lines 908-921, read back at lines       *)
(* 2169-2170                                                                 *)

MaxEntries == 2
MaxPieces == 4

\* an href with a blank in its query, as extractEpisodeLinks (line 1385) hands
\* it on unchanged
SpacedUrl ==
    <<"h", "t", "t", "p", "s", ":", "/", "/", "b", "o", "o", "k", "t", "o", "k", "i", "/", "?", "q", "=", "a", " ", "b">>

\* one URL of the job's alphabet and the one with the blank
ReportUrls == {u \in Urls : u[Len(u)] = "1"} \cup {SpacedUrl}

\* line 857
SkippedItems == {[url |-> u, reason |-> Reason("CAPTCHA (403)", 0, "")] : u \in ReportUrls}

\* lines 861-866
IncompleteItems ==
    {[url |-> u, reason |-> r] :
        u \in ReportUrls,
        r \in {Reason("Network Error", 500, ""),
               Reason("No Content Found", 0, ""),
               Reason("Fetch Error", 0, FetchMessage)}}

\* what an uploaded file is put together from
Pieces ==
    {<<"U", "R", "L", ":", " ">>,
     <<"U", "R", "L", ":", " ", "h", "t", "t", "p", "s", ":", "/", "/", "a">>,
     <<"h", "t", "t", "p", "s", ":", "/", "/", "a">>,
     <<"h", "t", "t", "p", ":", "/", "/">>,
     <<"b">>,
     <<" ">>,
     <<"\n">>}

RECURSIVE Concat(_)
Concat(ps) == IF ps = <<>> THEN <<>> ELSE Head(ps) \o Concat(Tail(ps))

\* lines 908-921: the lists become the text of the report
Serialize ==
    /\ codec = "report"
    /\ fileContent' = ReportText(ReportOf(reportItems.skipped, reportItems.incomplete))
    /\ codec' = "serialized"
    /\ UNCHANGED <<urlsToRetry, reportItems>>
    /\ UNCHANGED <<jobVars, trackerVars, callVars, other>>

\* lines 2169-2170: urlsToRetry = parseReportFile(content)
Parse ==
    /\ codec \in {"serialized", "upload"}
    /\ urlsToRetry' = parseReportFile(fileContent)
    /\ codec' = IF codec = "serialized" THEN "roundtrip" ELSE "parsed"
    /\ UNCHANGED <<fileContent, reportItems>>
    /\ UNCHANGED <<jobVars, trackerVars, callVars, other>>

\* either the lists of a finished job, or a file of any content
CodecInit ==
    /\ \/ /\ codec = "report"
          /\ reportItems \in
                 [skipped : SeqsUpTo(SkippedItems, MaxEntries),
                  incomplete : SeqsUpTo(IncompleteItems, MaxEntries)]
          /\ fileContent = <<>>
       \/ /\ codec = "upload"
          /\ reportItems = NoItems
          /\ \E ps \in SeqsUpTo(Pieces, MaxPieces) : fileContent = Concat(ps)
    /\ urlsToRetry = <<>>
    /\ JobIdle
    /\ TrackerIdle
    /\ CallIdle
    /\ other = NoJob

CodecNext ==
    \/ Serialize
    \/ Parse

CodecSpec == CodecInit /\ [][CodecNext]_vars

-----------------------------------------------------------------------------
(* sanitizeFilename on its own, lines 648-650 *)

MaxName == 2

\* the characters a name is made of: the ten of the pattern and four others
NameChars == InvalidChars \cup {"a", "_", ".", " "}

\* line 649: sanitizeFilename(name) returns
Sanitize ==
    /\ call = "sanitizeFilename"
    /\ callResult' = sanitizeFilename(callArgs)
    /\ call' = "sanitized"
    /\ UNCHANGED callArgs
    /\ UNCHANGED <<jobVars, trackerVars, codecVars, other>>

\* line 649 again: the result is sanitized once more
SanitizeAgain ==
    /\ call = "sanitized"
    /\ callArgs' = callResult
    /\ callResult' = sanitizeFilename(callResult)
    /\ call' = "sanitized twice"
    /\ UNCHANGED <<jobVars, trackerVars, codecVars, other>>

SanitizeInit ==
    /\ call = "sanitizeFilename"
    /\ callArgs \in SeqsUpTo(NameChars, MaxName)
    /\ callResult = <<>>
    /\ other = NoJob
    /\ JobIdle
    /\ TrackerIdle
    /\ CodecIdle

SanitizeNext ==
    \/ Sanitize
    \/ SanitizeAgain

SanitizeSpec == SanitizeInit /\ [][SanitizeNext]_vars


-----------------------------------------------------------------------------
(* The chapter range: the range dialog of runCrawler, lines 2008-2044, and   *)
(* the save option of downloadNovel, lines 1220-1236                         *)

MaxLinks == 3

\* line 2032: the smallest delay the range dialog accepts
MinDelay == 1000

\* an href that is not a booktoki address
OtherLink == <<"h", "t", "t", "p", ":", "/", "/", "x">>
Links == Urls \cup {OtherLink}

\* line 1229: the prefix a link must have
BooktokiPrefix ==
    <<"h", "t", "t", "p", "s", ":", "/", "/", "b", "o", "o", "k", "t", "o", "k", "i">>

\* String.prototype.startsWith
startsWith(s, prefix) ==
    Len(s) >= Len(prefix) /\ SubSeq(s, 1, Len(prefix)) = prefix

\* Number.parseInt of an input field: NaN or an integer
NaN == [nan |-> TRUE, n |-> 0]
Int0(n) == [nan |-> FALSE, n |-> n]
Inputs == {NaN} \cup {Int0(n) : n \in 0..(MaxLinks + 1)}

\* lines 2016-2022: the range test of the Download button
InvalidRange(startEpisode, endEpisode, length) ==
    \/ startEpisode.nan
    \/ endEpisode.nan
    \/ startEpisode.n < 1
    \/ endEpisode.n < startEpisode.n
    \/ endEpisode.n > length

\* line 2032
InvalidDelay(delay) == delay.nan \/ delay.n < MinDelay

\* mutant: the first index is one too high
startingIndexOffByOne(length, startEpisode) == length - startEpisode + 1

\* line 1224
startingIndex(length, startEpisode) == length - startEpisode

\* line 1225
endingIndex(length, endEpisode) == length - endEpisode

NoneCollected == [urlsToDownload |-> <<>>, reads |-> <<>>, warned |-> <<>>, threw |-> FALSE]

\* lines 1227-1234: the loop from index k down to index last (indices count
\* from 0); episodeLinks[k] outside the list is undefined and startsWith on it
\* throws
RECURSIVE Collect(_, _, _, _)
Collect(episodeLinks, k, last, acc) ==
    IF k < last THEN acc
    ELSE IF k < 0 \/ k >= Len(episodeLinks)
    THEN [acc EXCEPT !.reads = Append(@, k), !.threw = TRUE]
    ELSE IF startsWith(episodeLinks[k + 1], BooktokiPrefix)
    THEN Collect(episodeLinks, k - 1, last,
                 [acc EXCEPT !.reads = Append(@, k),
                             !.urlsToDownload = Append(@, episodeLinks[k + 1])])
    ELSE Collect(episodeLinks, k - 1, last,
                 [acc EXCEPT !.reads = Append(@, k),
                             !.warned = Append(@, episodeLinks[k + 1])])

\* lines 2008-2044: the Download button of the range dialog
SubmitRange ==
    /\ call = "runCrawler"
    /\ IF InvalidRange(callArgs.startEpisode, callArgs.endEpisode,
                       Len(callArgs.allEpisodeLinks))
       THEN call' = "rejected" /\ callResult' = <<"Invalid Range">>
       ELSE IF InvalidDelay(callArgs.delay)
       THEN call' = "rejected" /\ callResult' = <<"Invalid Delay">>
       ELSE call' = "downloadNovel" /\ callResult' = <<>>
    /\ UNCHANGED callArgs
    /\ UNCHANGED <<jobVars, trackerVars, codecVars, other>>

\* the loop of the save option run on the arguments c of the call
Collected(c) ==
    Collect(c.allEpisodeLinks,
            startingIndex(Len(c.allEpisodeLinks), c.startEpisode.n),
            endingIndex(Len(c.allEpisodeLinks), c.endEpisode.n),
            NoneCollected)

\* lines 1220-1236: a click on one of the two save options; found is what the
\* loop has collected
ChooseWith(found) ==
    /\ callResult' = found
    /\ IF found.threw
       THEN /\ call' = "threw"
            /\ UNCHANGED <<episodeUrlsToProcess, saveAsZip>>
       ELSE /\ call' = "processDownloadCore"
            /\ episodeUrlsToProcess' = found.urlsToDownload
            /\ \E value \in {"1", "2"} : saveAsZip' = (value # "1")

ChooseOption ==
    /\ call = "downloadNovel"
    /\ ChooseWith(Collected(callArgs))
    /\ UNCHANGED callArgs
    /\ UNCHANGED <<pc, i, isDownloadCancelled, completedEpisodes, skippedChapters,
                   incompleteChapters, novelText, zip, modalAttached, isBusyRef,
                   confirmOpen, exchange, inflight, fetchLog, results, lastExchange,
                   progressLog, delaysElapsed, cancelAt, reportContent,
                   reportDownloaded, artifact, notifications, uncaught,
                   statsProgress, originalFileNameForReport>>
    /\ UNCHANGED <<trackerVars, codecVars, other>>

RangeInit ==
    /\ call = "runCrawler"
    /\ callArgs \in [allEpisodeLinks : SeqsUpTo(Links, MaxLinks),
                     startEpisode    : Inputs,
                     endEpisode      : Inputs,
                     delay           : {NaN, Int0(MinDelay - 1), Int0(MinDelay)}]
    /\ callResult = <<>>
    /\ other = NoJob
    /\ JobIdle
    /\ TrackerIdle
    /\ CodecIdle

RangeNext ==
    \/ SubmitRange
    \/ ChooseOption

RangeSpec == RangeInit /\ [][RangeNext]_vars


-----------------------------------------------------------------------------
(* cleanText, lines 135-162, and unescapeHTML, lines 105-128 *)

MaxMarkup == 3

\* line 144: what an image is replaced by
ImageSkipped == <<"[", "I", "m", "a", "g", "e", " ", "S", "k", "i", "p", "p", "e", "d", "]">>

\* the least number of a set of numbers that is not empty
Least(S) == CHOOSE x \in S : \A y \in S : x <= y

\* the first position at or after q where text holds the character c, 0 if none
IndexFrom(text, q, c) ==
    IF \E j \in q..Len(text) : text[j] = c
    THEN Least({j \in q..Len(text) : text[j] = c})
    ELSE 0

\* the last position of the run of characters of the set S that starts at q
RunOf(text, q, S) ==
    Least({j \in q..Len(text) : j = Len(text) \/ text[j + 1] \notin S})

\* a literal pattern: a string of entities (line 122), or a tag of lines 138-141
Literal(lit, rep) == [type |-> "literal", lit |-> lit, rep |-> rep]

\* line 143: /<br\s*[/]?>/g, matched at p; q is the position after \s*
BrEnd(text, q) ==
    IF q <= Len(text) /\ text[q] = ">" THEN q
    ELSE IF q < Len(text) /\ text[q] = "/" /\ text[q + 1] = ">" THEN q + 1
    ELSE 0

\* the position where the match of pattern pat that starts at p ends, 0 if
\* the pattern does not match at p
MatchEnd(pat, text, p) ==
    CASE pat.type = "literal" ->
            IF WordAt(text, p, pat.lit) THEN p + Len(pat.lit) - 1 ELSE 0
      [] pat.type = "br" ->
            IF WordAt(text, p, <<"<", "b", "r">>)
            THEN BrEnd(text, RunOf(text, p + 2, Whitespace) + 1)
            ELSE 0
      [] pat.type = "img" ->
            IF /\ p + 3 <= Len(text)
               /\ text[p] = "<"
               /\ text[p + 1] \in {"i", "I"}
               /\ text[p + 2] \in {"m", "M"}
               /\ text[p + 3] \in {"g", "G"}
            THEN IndexFrom(text, p + 4, ">")
            ELSE 0
      [] pat.type = "tag" ->
            IF text[p] = "<" THEN IndexFrom(text, p + 1, ">") ELSE 0
      [] pat.type = "spaces" ->
            IF p < Len(text) /\ text[p] = " " /\ text[p + 1] = " "
            THEN RunOf(text, p, {" "})
            ELSE 0
      [] pat.type = "newlines" ->
            IF /\ p + 2 <= Len(text)
               /\ text[p] = "\n" /\ text[p + 1] = "\n" /\ text[p + 2] = "\n"
            THEN RunOf(text, p, {"\n"})
            ELSE 0

RECURSIVE ReplaceFrom(_, _, _)

\* the leftmost match at or after p starts at m (0: there is none), where it
\* ends at e
ReplaceAt(pat, text, p, m, e) ==
    IF m = 0 THEN SubSeq(text, p, Len(text))
    ELSE SubSeq(text, p, m - 1) \o pat.rep \o ReplaceFrom(pat, text, e + 1)

\* the leftmost position at or after p where the pattern matches, 0 if none
FirstMatchFrom(pat, text, p) ==
    IF \E q \in p..Len(text) : MatchEnd(pat, text, q) # 0
    THEN Least({q \in p..Len(text) : MatchEnd(pat, text, q) # 0})
    ELSE 0

ReplaceFound(pat, text, p, m) ==
    ReplaceAt(pat, text, p, m, IF m = 0 THEN 0 ELSE MatchEnd(pat, text, m))

\* String.prototype.replace with a global pattern, from position p on
ReplaceFrom(pat, text, p) ==
    IF p > Len(text) THEN <<>>
    ELSE ReplaceFound(pat, text, p, FirstMatchFrom(pat, text, p))

ReplaceAll(pat, text) == ReplaceFrom(pat, text, 1)

\* lines 106-119, in the order of the object's keys
entities ==
    <<[lit |-> <<"&", "l", "t", ";">>, rep |-> <<"<">>],
      [lit |-> <<"&", "g", "t", ";">>, rep |-> <<">">>],
      [lit |-> <<"&", "a", "m", "p", ";">>, rep |-> <<"&">>],
      [lit |-> <<"&", "q", "u", "o", "t", ";">>, rep |-> <<"\"">>],
      [lit |-> <<"&", "a", "p", "o", "s", ";">>, rep |-> <<"'">>],
      [lit |-> <<"&", "n", "b", "s", "p", ";">>, rep |-> <<" ">>],
      [lit |-> <<"&", "n", "d", "a", "s", "h", ";">>, rep |-> <<"-">>],
      [lit |-> <<"&", "m", "d", "a", "s", "h", ";">>, rep |-> <<"-", "-">>],
      [lit |-> <<"&", "l", "s", "q", "u", "o", ";">>, rep |-> <<"'">>],
      [lit |-> <<"&", "r", "s", "q", "u", "o", ";">>, rep |-> <<"'">>],
      [lit |-> <<"&", "l", "d", "q", "u", "o", ";">>, rep |-> <<"\"">>],
      [lit |-> <<"&", "r", "d", "q", "u", "o", ";">>, rep |-> <<"\"">>]>>

\* lines 121-125
RECURSIVE UnescapeFrom(_, _)
UnescapeFrom(result, k) ==
    IF k > Len(entities) THEN result
    ELSE UnescapeFrom(ReplaceAll(Literal(entities[k].lit, entities[k].rep), result), k + 1)

unescapeHTML(text) == UnescapeFrom(text, 1)

\* String.prototype.trim, for the white space of the model
RECURSIVE TrimStart(_)
TrimStart(line) ==
    IF line # <<>> /\ Head(line) \in Whitespace THEN TrimStart(Tail(line)) ELSE line

RECURSIVE TrimEnd(_)
TrimEnd(line) ==
    IF line # <<>> /\ line[Len(line)] \in Whitespace
    THEN TrimEnd(SubSeq(line, 1, Len(line) - 1))
    ELSE line

trim(line) == TrimEnd(TrimStart(line))

\* lines 154-156: .map(trim).filter(length > 0)
RECURSIVE TrimmedLines(_)
TrimmedWith(t, rest) ==
    IF t # <<>> THEN <<t>> \o TrimmedLines(rest) ELSE TrimmedLines(rest)

TrimmedLines(lines) ==
    IF lines = <<>> THEN <<>>
    ELSE TrimmedWith(trim(Head(lines)), Tail(lines))

\* line 157: .join("\n\n")
RECURSIVE Join(_)
Join(lines) ==
    IF lines = <<>> THEN <<>>
    ELSE IF Len(lines) = 1 THEN Head(lines)
    ELSE Head(lines) \o <<"\n", "\n">> \o Join(Tail(lines))

\* lines 138-147: the tags are replaced or removed
StripTags(text) ==
    ReplaceAll([type |-> "tag", rep |-> <<>>],
      ReplaceAll([type |-> "img", rep |-> ImageSkipped],
        ReplaceAll([type |-> "br", rep |-> <<"\n">>],
          ReplaceAll(Literal(<<"<", "/", "p", ">">>, <<"\n">>),
            ReplaceAll(Literal(<<"<", "p", ">">>, <<"\n">>),
              ReplaceAll(Literal(<<"<", "/", "d", "i", "v", ">">>, <<>>),
                ReplaceAll(Literal(<<"<", "d", "i", "v", ">">>, <<>>), text)))))))

\* lines 149-159: spaces, entities and lines of the text without tags
Normalize(stripped) ==
    ReplaceAll([type |-> "newlines", rep |-> <<"\n", "\n">>],
      Join(TrimmedLines(Split(
        unescapeHTML(ReplaceAll([type |-> "spaces", rep |-> <<" ">>], stripped))))))

cleanText(text) == Normalize(StripTags(text))

\* the pieces a markup of the model is put together from: paragraph tags,
\* line breaks, an image, other tags, text, white space, an entity and angle
\* brackets that stand alone
ParagraphTags == {<<"<", "p", ">">>, <<"<", "/", "p", ">">>}
LineBreaks == {<<"<", "b", "r", ">">>, <<"<", "b", "r", "/", ">">>, <<"<", "b", "r", " ", "i", "d", "=", "\"", "x", "\"", ">">>}
Images == {<<"<", "i", "m", "g", " ", "s", "r", "c", "=", "x", ">">>}
OtherTags == {<<"<", "d", "i", "v", ">">>, <<"<", "b", ">">>}
TextPieces == {<<"a">>, <<" ">>, <<"\n">>, <<"&", "l", "t", ";">>}
Brackets == {<<"<">>, <<">">>}
MarkupPieces == ParagraphTags \cup LineBreaks \cup Images \cup OtherTags
                    \cup TextPieces \cup Brackets

\* the markup "<p>Hello</p><br/><img src=x>"
ExampleMarkup == <<<<"<", "p", ">">>, <<"H", "e", "l", "l", "o">>, <<"<", "/", "p", ">">>, <<"<", "b", "r", "/", ">">>, <<"<", "i", "m", "g", " ", "s", "r", "c", "=", "x", ">">>>>

\* the text of a markup given by its pieces
RECURSIVE Flatten(_)
Flatten(pieces) ==
    IF pieces = <<>> THEN <<>> ELSE Head(pieces) \o Flatten(Tail(pieces))

\* lines 135-162 for the text without tags st
CleanWith(st) ==
    callResult' = [stripped |-> st, cleaned |-> Normalize(st)]

Clean ==
    /\ call = "cleanText"
    /\ CleanWith(StripTags(Flatten(callArgs)))
    /\ call' = "cleaned"
    /\ UNCHANGED callArgs
    /\ UNCHANGED <<jobVars, trackerVars, codecVars, other>>

CleanInit ==
    /\ call = "cleanText"
    /\ callArgs \in SeqsUpTo(MarkupPieces, MaxMarkup) \cup {ExampleMarkup}
    /\ callResult = <<>>
    /\ other = NoJob
    /\ JobIdle
    /\ TrackerIdle
    /\ CodecIdle

CleanNext == Clean

CleanSpec == CleanInit /\ [][CleanNext]_vars

-----------------------------------------------------------------------------

JobStep == Start \/ FetchSettles \/ TextSettles \/ DelayElapses \/ TimerFires

Next ==
    \/ Start
    \/ FetchSettles
    \/ TextSettles
    \/ DelayElapses
    \/ TimerFires
    \/ ClickDownload
    \/ ClickClose
    \/ ConfirmCancel
    \/ DeclineCancel

Spec == Init /\ [][Next]_vars

\* every fetch eventually settles, every timer eventually fires
FairSpec == Spec /\ WF_vars(JobStep)

-----------------------------------------------------------------------------
(* Two jobs: processDownloadCore called again while a first call is in its   *)
(* loop.  The locals of lines 758-826 belong to one call; the job that takes *)
(* steps is held in the job variables, the other one in the variable other.  *)

\* the URL lists of the first and of the second call
FirstUrls == <<CHOOSE u \in Urls : u[Len(u)] = "1">>
SecondUrls == <<CHOOSE u \in Urls : u[Len(u)] = "2">>

\* the locals of the job that takes steps
ThisJob == [pc |-> pc, locals |-> jobVars]

\* lines 739-747: the locals of a call that has not taken a step
NewJob(urls, asZip) ==
    [pc |-> "init",
     locals |-> <<urls, asZip, "init", 0, FALSE, 0, <<>>, <<>>, <<>>, {}, FALSE,
                  FALSE, 0, NoExchange, {}, <<>>, <<>>, NoExchange, <<>>, 0,
                  NotCancelled, NoReport, FALSE, NoArtifact, {}, 0,
                  NoStats.progress, NoFile>>]

\* the flag and the counter of the job in other
OtherCancelled == other.locals[5]
OtherCompleted == other.locals[6]

\* lines 1220-1236: a save option is chosen for a second download while the
\* first job is in its loop
StartSecond ==
    /\ other = NoJob
    /\ pc \in {"fetch", "text", "delay"}
    /\ \E asZip \in BOOLEAN : other' = NewJob(SecondUrls, asZip)
    /\ UNCHANGED <<jobVars, trackerVars, codecVars, callVars>>

\* the next step is one of the other job: no line of code runs
Switch ==
    /\ other # NoJob
    /\ other' = ThisJob
    /\ episodeUrlsToProcess' = other.locals[1]
    /\ saveAsZip' = other.locals[2]
    /\ pc' = other.locals[3]
    /\ i' = other.locals[4]
    /\ isDownloadCancelled' = other.locals[5]
    /\ completedEpisodes' = other.locals[6]
    /\ skippedChapters' = other.locals[7]
    /\ incompleteChapters' = other.locals[8]
    /\ novelText' = other.locals[9]
    /\ zip' = other.locals[10]
    /\ modalAttached' = other.locals[11]
    /\ isBusyRef' = other.locals[12]
    /\ confirmOpen' = other.locals[13]
    /\ exchange' = other.locals[14]
    /\ inflight' = other.locals[15]
    /\ fetchLog' = other.locals[16]
    /\ results' = other.locals[17]
    /\ lastExchange' = other.locals[18]
    /\ progressLog' = other.locals[19]
    /\ delaysElapsed' = other.locals[20]
    /\ cancelAt' = other.locals[21]
    /\ reportContent' = other.locals[22]
    /\ reportDownloaded' = other.locals[23]
    /\ artifact' = other.locals[24]
    /\ notifications' = other.locals[25]
    /\ uncaught' = other.locals[26]
    /\ statsProgress' = other.locals[27]
    /\ originalFileNameForReport' = other.locals[28]
    /\ UNCHANGED <<trackerVars, codecVars, callVars>>

TwoJobsInit ==
    /\ episodeUrlsToProcess = FirstUrls
    /\ saveAsZip \in BOOLEAN
    /\ JobFresh
    /\ TrackerIdle
    /\ CodecIdle
    /\ CallIdle
    /\ other = NoJob

TwoJobsNext ==
    \/ Next
    \/ StartSecond
    \/ Switch

TwoJobsSpec == TwoJobsInit /\ [][TwoJobsNext]_vars

\* the job and the retry dialog: a finished job's report can be fed back
RetryNext ==
    \/ Next
    \/ RetryFromFile

RetrySpec == Init /\ [][RetryNext]_vars

TypeOK ==
    /\ pc \in {"init", "setup_failed", "fetch", "text", "delay", "cancelled",
               "generated", "dialog", "timer_failed", "downloaded"}
    /\ i \in 0..Len(episodeUrlsToProcess)
    /\ completedEpisodes \in 0..Len(episodeUrlsToProcess)
    /\ confirmOpen \in 0..MaxConfirm

-----------------------------------------------------------------------------
(* Vocabulary of the properties *)

NumUrls == Len(episodeUrlsToProcess)

\* completedEpisodes + skippedChapters.length + incompleteChapters.length
Recorded == completedEpisodes + Len(skippedChapters) + Len(incompleteChapters)

InLoop == pc \in {"fetch", "text", "delay"}
LoopExited == pc \in {"cancelled", "generated", "dialog", "timer_failed", "downloaded"}

\* the job did not end by the cancelled branch of line 897
EndedNotCancelled == pc \in {"generated", "dialog", "timer_failed", "downloaded"}

Failed(r) == r.status \in {"captcha", "network_error", "no_content_found", "fetch_error"}

\* the positions of results whose result satisfies Test, in input order
Positions(Test(_)) ==
    SelectSeq([k \in 1..Len(results) |-> k], LAMBDA k : Test(results[k]))

IsSuccess(r) == r.status = "success"
IsBlocked(r) == r.status = "captcha"
IsIncomplete(r) == r.status \in {"network_error", "no_content_found", "fetch_error"}

\* the flag was first set while the item at index cancelAt.i was being processed
CancelledDuringItem == cancelAt.set /\ cancelAt.pc \in {"fetch", "text", "delay"}

-----------------------------------------------------------------------------
(* C1: in every reachable state of a job the sum completedEpisodes +        *)
(* skippedChapters.length + incompleteChapters.length is at most the number *)
(* of URLs, and once the loop has ended by exhaustion the sum equals the    *)
(* number of URLs; a job that did not take the cancelled branch ended by    *)
(* exhaustion.                                                              *)
C1_SumBounded ==
    /\ Recorded <= NumUrls
    /\ (LoopExited /\ i = NumUrls) => Recorded = NumUrls
    /\ EndedNotCancelled => i = NumUrls

\* a two-item job ended by exhaustion with one item of each failure list
C1_Witness ==
    /\ pc = "generated"
    /\ NumUrls = 2
    /\ Len(skippedChapters) = 1
    /\ Len(incompleteChapters) = 1

(* C2: if the flag is set while the item at loop index k is being processed *)
(* (during its fetch, the reading of its body, or its delay), then after    *)
(* the loop the sum is k or k+1.                                            *)
C2_CancelAtK ==
    (LoopExited /\ CancelledDuringItem) =>
        Recorded \in {cancelAt.i, cancelAt.i + 1}

\* cancelled during the fetch of item 0 of a two-item job: the loop stopped
\* with one item recorded and one never fetched
C2_Witness ==
    /\ pc = "cancelled"
    /\ cancelAt.pc = "fetch"
    /\ cancelAt.i = 0
    /\ NumUrls = 2
    /\ Recorded = 1

(* C3: once the cancellation flag is set no further fetch is started; the   *)
(* fetch in flight at that moment is not aborted and its outcome is         *)
(* recorded, so at most one outcome is recorded after the request.          *)
C3_CancelAtBoundary ==
    /\ [][isDownloadCancelled => fetchLog' = fetchLog]_vars
    /\ [](CancelledDuringItem =>
            /\ Len(results) <= cancelAt.i + 1
            /\ Len(fetchLog) = cancelAt.i + 1
            /\ (cancelAt.pc \in {"fetch", "text"} /\ pc \notin {"fetch", "text"})
                  => Len(results) = cancelAt.i + 1)

\* the flag was set during the fetch of item 0, whose outcome was recorded
\* afterwards, and item 1 was never requested
C3_Witness ==
    /\ cancelAt.set
    /\ cancelAt.pc = "fetch"
    /\ cancelAt.i = 0
    /\ pc = "cancelled"
    /\ Len(results) = 1
    /\ fetchLog = <<0>>
    /\ NumUrls = 2

(* C4 as claimed: a job that ends by cancellation yields a partial report   *)
(* built from the skipped and incomplete items recorded so far.             *)
C4_CancelledHasReport ==
    pc = "cancelled" => reportContent = ReportOf(skippedChapters, incompleteChapters)

(* C4 amended: a job that ends by cancellation shows the "Download          *)
(* Cancelled" notification and returns at once: no report is built, none is *)
(* added to the archive or offered as a file, and no artifact is offered.   *)
C4_CancelledHasNoReport ==
    pc = "cancelled" =>
        /\ reportContent = NoReport
        /\ ~reportDownloaded
        /\ artifact = NoArtifact
        /\ \A e \in zip : e.name # reportFileName
        /\ "Download Cancelled" \in notifications

\* a cancelled job that had recorded failures
C4_Witness ==
    /\ pc = "cancelled"
    /\ Len(skippedChapters) + Len(incompleteChapters) > 0

(* C5: at most one fetch of a job is in flight at any time; the fetch for   *)
(* an index is started only when the outcomes of all earlier indices have   *)
(* been returned and recorded.                                              *)
C5_OneInFlight ==
    /\ Cardinality(inflight) <= 1
    /\ \A k \in inflight :
          /\ k = i
          /\ Len(results) = k
          /\ Recorded = k
    /\ Len(fetchLog) <= Len(results) + 1
    /\ Len(fetchLog) <= Recorded + 1

\* the fetch of item 1 is in flight after item 0 was recorded as skipped
C5_Witness ==
    /\ inflight = {1}
    /\ Len(skippedChapters) = 1

(* C6: every processed item, whatever its outcome, is followed by one full  *)
(* inter-item delay before the next loop step: when a fetch is in flight    *)
(* one delay has elapsed for each earlier item, and after the loop one      *)
(* delay has elapsed for each processed item.                               *)
C6_DelayAfterEveryItem ==
    /\ pc \in {"fetch", "text"} => delaysElapsed = i /\ Len(fetchLog) = i + 1
    /\ Len(fetchLog) <= delaysElapsed + 1
    /\ LoopExited => delaysElapsed = Len(results)

\* item 1 is being fetched after a failed item 0 and one elapsed delay
C6_Witness ==
    /\ pc = "fetch"
    /\ i = 1
    /\ Len(results) = 1
    /\ Failed(results[1])
    /\ delaysElapsed = 1

(* C7: fetches, outcomes and progress updates happen in input-URL order:    *)
(* the k-th request, the k-th outcome and the k-th progress update all      *)
(* belong to the k-th URL, and the merged text, the skipped list and the    *)
(* incomplete list keep the relative order of their URLs.                   *)
C7_InputOrder ==
    /\ \A k \in DOMAIN fetchLog : fetchLog[k] = k - 1
    /\ Len(progressLog) = Len(results)
    /\ \A k \in DOMAIN progressLog : progressLog[k] = k
    /\ \A k \in DOMAIN results :
          Failed(results[k]) => results[k].url = episodeUrlsToProcess[k]
    /\ ~saveAsZip =>
          [k \in DOMAIN novelText |-> novelText[k].content] =
          [k \in DOMAIN Positions(IsSuccess) |->
              [page |-> episodeUrlsToProcess[Positions(IsSuccess)[k]]]]
    /\ [k \in DOMAIN skippedChapters |-> skippedChapters[k].url] =
          [k \in DOMAIN Positions(IsBlocked) |->
              episodeUrlsToProcess[Positions(IsBlocked)[k]]]
    /\ [k \in DOMAIN incompleteChapters |-> incompleteChapters[k].url] =
          [k \in DOMAIN Positions(IsIncomplete) |->
              episodeUrlsToProcess[Positions(IsIncomplete)[k]]]

\* a merged text of two chapters of two different URLs
C7_Witness ==
    /\ ~saveAsZip
    /\ Len(novelText) = 2
    /\ novelText[1].content # novelText[2].content
    /\ progressLog = <<1, 2>>

\* the result returned last (defined while lastExchange is kept)
LastResult == results[Len(results)]

(* C8: fetchNovelContent maps every exchange to exactly one of five         *)
(* outcomes: a rejected fetch gives fetch_error with the exception message; *)
(* status 403 gives captcha; another non-success status gives network_error *)
(* with that status code; a success status whose body cannot be read gives  *)
(* fetch_error with the message; a page without content region gives        *)
(* no_content_found; otherwise success with title and content. Only success *)
(* carries content, and each call makes one network request.                *)
C8_Classification ==
    lastExchange # NoExchange =>
        LET x == lastExchange
            r == LastResult
        IN  /\ r.status \in {"captcha", "network_error", "no_content_found",
                             "fetch_error", "success"}
            /\ x.kind = "fetch_throws" =>
                  r.status = "fetch_error" /\ r.message = x.message
            /\ (x.kind # "fetch_throws" /\ x.status = 403) => r.status = "captcha"
            /\ (x.kind # "fetch_throws" /\ x.status # 403 /\ ~Ok(x.status)) =>
                  r.status = "network_error" /\ r.statusCode = x.status
            /\ (x.kind = "text_throws" /\ Ok(x.status)) =>
                  r.status = "fetch_error" /\ r.message = x.message
            /\ (x.kind = "page" /\ Ok(x.status) /\ ~x.hasContent) =>
                  r.status = "no_content_found"
            /\ (x.kind = "page" /\ Ok(x.status) /\ x.hasContent) =>
                  /\ r.status = "success"
                  /\ r.content = [page |-> episodeUrlsToProcess[Len(results)]]
                  /\ r.episodeTitle \in {UntitledEpisode, TitleA, TitleB}
            /\ ("content" \in DOMAIN r) <=> (r.status = "success")
            /\ Len(fetchLog) = Len(results)

\* a 403 answer has just been classified as captcha
C8_Witness ==
    /\ lastExchange = ResponseHead(403)
    /\ LastResult.status = "captcha"

(* C9: a per-item failure never interrupts the loop: from the delay that    *)
(* follows a failed item at index i, if the flag is not set and i is not    *)
(* the last index, the job's next step requests index i+1; a job step       *)
(* never leaves the loop except to the delay or to the code after the loop; *)
(* and every job that recorded a failure reaches the code after the loop.   *)
C9_FailureDoesNotInterrupt ==
    /\ [][(/\ pc = "delay"
           /\ Failed(LastResult)
           /\ ~isDownloadCancelled
           /\ i + 1 < NumUrls
           /\ pc' # pc)
          => (pc' = "fetch" /\ i' = i + 1 /\ fetchLog' = Append(fetchLog, i + 1))]_vars
    /\ [][(pc \in {"fetch", "text"} /\ pc' # pc) => pc' \in {"text", "delay"}]_vars
    /\ [](InLoop => <>LoopExited)

\* item 1 is requested right after the failure of item 0
C9_Witness ==
    /\ pc = "fetch"
    /\ i = 1
    /\ fetchLog = <<0, 1>>
    /\ Failed(results[1])
    /\ ~isDownloadCancelled

\* the record lines 856-868 make of a failed result for url u
ExpectedEntry(r, u) ==
    [url |-> u,
     reason |-> CASE r.status = "captcha" -> Reason("CAPTCHA (403)", 0, "")
                  [] r.status = "network_error" -> Reason("Network Error", r.statusCode, "")
                  [] r.status = "no_content_found" -> Reason("No Content Found", 0, "")
                  [] r.status = "fetch_error" -> Reason("Fetch Error", 0, r.message)]

ExpectedList(pos) ==
    [k \in DOMAIN pos |-> ExpectedEntry(results[pos[k]], episodeUrlsToProcess[pos[k]])]

(* C10: after a job that did not end by cancellation, completedEpisodes is  *)
(* the number of success outcomes, skippedChapters is the input-order       *)
(* subsequence of the blocked URLs, incompleteChapters is the input-order   *)
(* subsequence of the URLs with a status error, missing content or          *)
(* transport failure, each with the reason of its sub-case (status code or  *)
(* exception message), and the merged text has one section per success.     *)
C10_FinalLists ==
    EndedNotCancelled =>
        /\ Len(results) = NumUrls
        /\ completedEpisodes = Len(Positions(IsSuccess))
        /\ skippedChapters = ExpectedList(Positions(IsBlocked))
        /\ incompleteChapters = ExpectedList(Positions(IsIncomplete))
        /\ \A k \in DOMAIN incompleteChapters, m \in DOMAIN incompleteChapters :
              (results[Positions(IsIncomplete)[k]].status #
                   results[Positions(IsIncomplete)[m]].status)
              => incompleteChapters[k].reason.label # incompleteChapters[m].reason.label
        /\ ~saveAsZip => Len(novelText) = completedEpisodes

\* a finished merged job with one success and one status error
C10_Witness ==
    /\ pc = "generated"
    /\ ~saveAsZip
    /\ completedEpisodes = 1
    /\ Len(incompleteChapters) = 1
    /\ incompleteChapters[1].reason.code = 500

\* an outcome is recorded in this step, and it is the blocked one
BlockedRecorded ==
    /\ Len(results') = Len(results) + 1
    /\ results'[Len(results')].status = "captcha"

\* nothing but the skipped list moves when a blocked outcome is recorded
BlockedFrame ==
    /\ completedEpisodes' = completedEpisodes
    /\ incompleteChapters' = incompleteChapters
    /\ novelText' = novelText
    /\ zip' = zip

C12_NoRetryInRun ==
    /\ [](\A k \in DOMAIN fetchLog : fetchLog[k] = k - 1)
    /\ [](Len(fetchLog) <= NumUrls /\ Len(fetchLog) - Len(results) \in {0, 1})
    /\ [][\/ fetchLog' = fetchLog
          \/ /\ fetchLog' = Append(fetchLog, Len(fetchLog))
             /\ episodeUrlsToProcess' = episodeUrlsToProcess
          \/ /\ fetchLog' = <<>>
             /\ pc' = "init"
             /\ reportContent # NoReport
             /\ episodeUrlsToProcess' = parseReportFile(ReportText(reportContent))]_vars

\* a job started from a report fetches a URL again, and it fails again
C12_Witness ==
    /\ originalFileNameForReport = RetryFileName
    /\ pc = "delay"
    /\ fetchLog = <<0>>
    /\ Len(results) = 1
    /\ Failed(results[1])

(* C13: when archive mode is requested and the archiving library cannot be  *)
(* loaded (either cause), the job ends with a failure notification of its   *)
(* own before any item is fetched and before any job state exists: no       *)
(* modal, no counter, list, output, report or artifact; it does not go on   *)
(* in another mode, and no other outcome shows that notification.           *)
C13_SetupFailureAborts ==
    /\ [](pc = "setup_failed" =>
            /\ saveAsZip
            /\ notifications # {}
            /\ notifications \subseteq LoadFailures
            /\ fetchLog = <<>> /\ inflight = {} /\ results = <<>>
            /\ ~modalAttached /\ ~isBusyRef /\ confirmOpen = 0
            /\ completedEpisodes = 0 /\ progressLog = <<>>
            /\ skippedChapters = <<>> /\ incompleteChapters = <<>>
            /\ novelText = <<>> /\ zip = {}
            /\ reportContent = NoReport /\ ~reportDownloaded
            /\ artifact = NoArtifact)
    /\ [](notifications \cap LoadFailures # {} => pc = "setup_failed")
    /\ [][pc = "setup_failed" => UNCHANGED jobVars]_vars

\* an archive-mode job over two URLs whose library never became defined
C13_Witness ==
    /\ pc = "setup_failed"
    /\ NumUrls = 2
    /\ "JSZip did not become defined within the expected time.ZIP Library Load Failed"
           \in notifications

\* progress "100.0"
Hundred == [text |-> "number", tenths |-> 1000]

(* C17: after the item at index i the tracker is updated with i + 1, the    *)
(* position in the loop, whatever completedEpisodes is; the percent shown   *)
(* is the one of the position, and after the last item of a job that was    *)
(* not cancelled it is 100.0 whatever the outcomes were.                    *)
C17_ProgressByPosition ==
    /\ progressLog = [k \in 1..Len(results) |-> k]
    /\ Len(results) > 0 => statsProgress = Progress(Len(results), NumUrls)
    /\ (EndedNotCancelled /\ NumUrls > 0) => statsProgress = Hundred

\* a finished job of two items, none of them successful, shows 100.0
C17_Witness ==
    /\ pc = "generated"
    /\ NumUrls = 2
    /\ completedEpisodes = 0
    /\ progressLog = <<1, 2>>
    /\ statsProgress = Hundred

-----------------------------------------------------------------------------
(* The progress tracker *)

\* progress "0.0"
Zero == [text |-> "number", tenths |-> 0]

\* this step is a call of update with the count updatedWith'
UpdateStep == elapsed' = elapsed

(* C18: for a tracker with totalItems > 0, after any history of updates,    *)
(* update(totalItems) returns percent 100.0 and update(0) returns percent   *)
(* 0.0 and records no sample; as long as only update(0) was called the      *)
(* window is empty, the average is 0 and the speed is 0.                    *)
C18_UpdateEndpoints ==
    /\ []((totalItems > 0 /\ stats # NoStats) =>
            /\ updatedWith = totalItems => stats.progress = Hundred
            /\ updatedWith = 0 => stats.progress = Zero
            /\ processingTimes = <<>> =>
                  /\ AvgTimePerItem(processingTimes) = Frac(0, 1)
                  /\ stats.speed = 0
                  /\ stats.remaining = formatTime(Frac(0, 1)))
    /\ [][(UpdateStep /\ updatedWith' = 0) =>
             processingTimes' = processingTimes]_vars

\* update(totalItems) gave the fourth sample of the window
C18_Witness ==
    /\ totalItems = 2
    /\ updatedWith = 2
    /\ Len(processingTimes) = 4
    /\ stats # NoStats
    /\ stats.progress = Hundred

(* C19: the window never holds more than 5 samples; an update with a count  *)
(* above 0 appends the sample elapsed / count, and when the window is full  *)
(* the oldest sample is the one that leaves, so the window is always the    *)
(* latest samples in arrival order.                                         *)
C19_WindowFifo ==
    /\ [](Len(processingTimes) <= 5)
    /\ [][(UpdateStep /\ updatedWith' > 0) =>
             IF Len(processingTimes) < 5
             THEN processingTimes' =
                      Append(processingTimes, Frac(elapsed, updatedWith'))
             ELSE processingTimes' =
                      Append(Tail(processingTimes), Frac(elapsed, updatedWith'))]_vars

\* a full window from which a sample has been evicted
C19_Witness ==
    /\ shifted
    /\ Len(processingTimes) = 5
    /\ processingTimes[1] # processingTimes[5]

(* C20, as stated: a tracker built with totalItems = 0 reports 100% with    *)
(* zero remaining time on update, not a degenerate percentage.              *)
C20_ZeroTotalReportsHundred ==
    (totalItems = 0 /\ stats # NoStats) =>
        /\ stats.progress = Hundred
        /\ stats.remaining = formatTime(Frac(0, 1))

-----------------------------------------------------------------------------
(* The report and its parser *)

\* the lines of a text: what stands between its line breaks
Breaks(text) == {k \in DOMAIN text : text[k] = "\n"}

NumLines(text) == Cardinality(Breaks(text)) + 1

NthBreak(text, n) ==
    CHOOSE k \in Breaks(text) : Cardinality({m \in Breaks(text) : m <= k}) = n

LineOf(text, j) ==
    SubSeq(text,
           IF j = 1 THEN 1 ELSE NthBreak(text, j - 1) + 1,
           IF j = NumLines(text) THEN Len(text) ELSE NthBreak(text, j) - 1)

LinesOf(text) == [j \in 1..NumLines(text) |-> LineOf(text, j)]

Marker == <<"U", "R", "L", ":", " ">>

HasMarker(line) == \E p \in DOMAIN line : WordAt(line, p, Marker)

\* the end of the run of non-whitespace that starts at s; s - 1 if there is none
TokenEnd(line, s) ==
    IF s > Len(line) \/ line[s] \in Whitespace THEN s - 1
    ELSE CHOOSE q \in s..Len(line) :
             /\ \A m \in s..q : line[m] \notin Whitespace
             /\ q = Len(line) \/ line[q + 1] \in Whitespace

ItemUrls(items) == [k \in DOMAIN items |-> items[k].url]

Parsed == codec \in {"parsed", "roundtrip"}

(* C14, as stated: for every report, parseReportFile of the serialized      *)
(* report is the URLs of the skipped list followed by the URLs of the       *)
(* incomplete list, in order, duplicates kept, none missing, altered or     *)
(* added.                                                                   *)
C14_RoundTrip ==
    codec = "roundtrip" =>
        urlsToRetry = ItemUrls(reportItems.skipped) \o ItemUrls(reportItems.incomplete)

\* what the claim of C15 makes of a line: the text after the first marker up
\* to the next whitespace, nothing for a line without the marker
TokenAfterMarker(line) ==
    IF HasMarker(line)
    THEN LET p == CHOOSE q \in DOMAIN line :
                      WordAt(line, q, Marker) /\ \A m \in 1..(q - 1) : ~WordAt(line, m, Marker)
         IN  <<SubSeq(line, p + 5, TokenEnd(line, p + 5))>>
    ELSE <<>>

(* C15, as stated: every line that contains the marker `URL: ` yields the   *)
(* text after the marker up to the next whitespace; lines without the       *)
(* marker yield nothing; file order and duplicates are kept.                *)
C15_MarkerThenToken ==
    Parsed =>
        urlsToRetry = Concat([j \in 1..NumLines(fileContent) |->
                                 TokenAfterMarker(LineOf(fileContent, j))])

\* the marker at p is directly followed by http:// or https:// and one more
\* character that is not whitespace
HttpAfterMarker(line, p) ==
    /\ WordAt(line, p, Marker)
    /\ \/ /\ WordAt(line, p + 5, <<"h", "t", "t", "p", "s", ":", "/", "/">>)
          /\ p + 13 <= Len(line)
          /\ line[p + 13] \notin Whitespace
       \/ /\ WordAt(line, p + 5, <<"h", "t", "t", "p", ":", "/", "/">>)
          /\ p + 12 <= Len(line)
          /\ line[p + 12] \notin Whitespace

\* the amended reading of a line
UrlAfterMarker(line) ==
    IF \E p \in DOMAIN line : HttpAfterMarker(line, p)
    THEN LET p == CHOOSE q \in DOMAIN line :
                      HttpAfterMarker(line, q)
                      /\ \A m \in 1..(q - 1) : ~HttpAfterMarker(line, m)
         IN  <<SubSeq(line, p + 5, TokenEnd(line, p + 5))>>
    ELSE <<>>

(* C15, amended: every line yields at most one URL: at the first place      *)
(* where the marker `URL: ` is directly followed by http:// or https:// and *)
(* at least one character that is not whitespace, the text after the marker *)
(* up to the next whitespace or the end of the line. Lines with no such     *)
(* place, with or without the marker, yield nothing; file order and         *)
(* duplicates are kept.                                                     *)
C15_FirstHttpAfterMarker ==
    Parsed =>
        urlsToRetry = Concat([j \in 1..NumLines(fileContent) |->
                                 UrlAfterMarker(LineOf(fileContent, j))])

\* a file of two lines: the first holds the marker followed by other text and
\* yields nothing, the second yields its URL
C15_Witness ==
    /\ codec = "parsed"
    /\ NumLines(fileContent) = 2
    /\ LineOf(fileContent, 1) = <<"U", "R", "L", ":", " ", "b">>
    /\ urlsToRetry = << <<"h", "t", "t", "p", "s", ":", "/", "/", "a">> >>

\* the lines a section of the report is made of
SectionLines(items, sentinel) ==
    IF items = <<>> THEN <<sentinel>>
    ELSE [k \in DOMAIN items |->
             Marker \o items[k].url \o Chars(" (Reason: ")
             \o ReasonText(items[k].reason) \o Chars(")")]

(* C16: the serialized report is the skipped header, the skipped section,   *)
(* an empty line, the incomplete header and the incomplete section, always  *)
(* in that order; a section is one line `URL: <url> (Reason: <reason>)` per *)
(* item in recording order, or its sentinel line when there is no item;     *)
(* neither sentinel contains the marker `URL: `.                            *)
C16_ReportLayout ==
    /\ codec \in {"serialized", "roundtrip"} =>
          LinesOf(fileContent) =
              <<Chars("--- Skipped Chapters (CAPTCHA / 403) ---")>>
              \o SectionLines(reportItems.skipped,
                              Chars("No chapters skipped due to CAPTCHA."))
              \o << <<>>, Chars("--- Incomplete/Failed Chapters ---") >>
              \o SectionLines(reportItems.incomplete,
                              Chars("No chapters incomplete or failed."))
              \o << <<>> >>
    /\ ~HasMarker(Chars("No chapters skipped due to CAPTCHA."))
    /\ ~HasMarker(Chars("No chapters incomplete or failed."))

\* a report with no skipped item and two incomplete ones
C16_Witness ==
    /\ codec = "serialized"
    /\ reportItems.skipped = <<>>
    /\ Len(reportItems.incomplete) = 2
    /\ NumLines(fileContent) = 7

-----------------------------------------------------------------------------
(* sanitizeFilename *)

(* C21: sanitizeFilename replaces every occurrence of / \ ? % * : | " < >   *)
(* by _ and leaves every other character as it is: the result is as long as *)
(* the input and holds none of the ten characters, and sanitizing the       *)
(* result again gives the result itself.                                    *)
C21_SanitizeFilename ==
    /\ call = "sanitized" =>
          /\ Len(callResult) = Len(callArgs)
          /\ \A k \in DOMAIN callArgs :
                /\ callResult[k] \notin {"/", "\\", "?", "%", "*", ":", "|", "\"", "<", ">"}
                /\ callResult[k] =
                       IF callArgs[k] \in {"/", "\\", "?", "%", "*", ":", "|", "\"", "<", ">"}
                       THEN "_" ELSE callArgs[k]
    /\ call = "sanitized twice" => callResult = callArgs

\* a name of two invalid characters has both of them replaced
C21_Witness ==
    /\ call = "sanitized"
    /\ callArgs = <<"/", "\\">>
    /\ callResult = <<"_", "_">>

-----------------------------------------------------------------------------
(* The job, continued *)

\* the job's function has returned: set-up failure, or the code after the loop
Returned == pc = "setup_failed" \/ LoopExited

(* C23: with every fetch returning and every delay elapsing, every job      *)
(* reaches its end; the loop makes at most one iteration per URL; a job     *)
(* with an empty URL list (whose library, if any, loaded) makes no fetch    *)
(* and no progress update and completes at once with completedEpisodes = 0  *)
(* and a report whose two sections are their sentinel lines.                *)
C23_Terminates ==
    /\ <>Returned
    /\ [](Len(fetchLog) <= NumUrls /\ Len(results) <= NumUrls)
    /\ []((NumUrls = 0 /\ pc \notin {"init", "setup_failed"}) =>
            /\ EndedNotCancelled
            /\ fetchLog = <<>>
            /\ progressLog = <<>>
            /\ completedEpisodes = 0
            /\ reportContent =
                   << [kind |-> "header", text |-> "--- Skipped Chapters (CAPTCHA / 403) ---"],
                      [kind |-> "sentinel", text |-> "No chapters skipped due to CAPTCHA."],
                      [kind |-> "blank"],
                      [kind |-> "header", text |-> "--- Incomplete/Failed Chapters ---"],
                      [kind |-> "sentinel", text |-> "No chapters incomplete or failed."] >>)

\* a job with no URL has completed
C23_Witness ==
    /\ NumUrls = 0
    /\ pc = "generated"
    /\ reportContent # NoReport

\* the archive entries that carry the name of the report
ReportEntries == {e \in zip : e.name = reportFileName}

\* C24: a job that ends without cancellation has built exactly one report, the
\* one of its two lists.  In archive mode the report is one entry of the
\* archive under the report's name and is not downloaded as a file of its own;
\* in merged mode it is downloaded as a file of its own, the archive stays
\* empty and the merged text holds one section per chapter fetched with
\* success and nothing else.  The artifact of the Download button is the
\* archive, respectively the merged text.  Before the end of the loop, and in a
\* cancelled job, no report exists.
C24_OneReport ==
    /\ EndedNotCancelled =>
          /\ reportContent = ReportOf(skippedChapters, incompleteChapters)
          /\ IF saveAsZip
             THEN /\ ~reportDownloaded
                  /\ ReportEntries = {[name |-> reportFileName, content |-> reportContent]}
                  /\ novelText = <<>>
             ELSE /\ reportDownloaded
                  /\ zip = {}
                  /\ Len(novelText) = completedEpisodes
                  /\ \A k \in DOMAIN novelText :
                        \E p \in DOMAIN results :
                           /\ IsSuccess(results[p])
                           /\ novelText[k] = [title   |-> results[p].episodeTitle,
                                              content |-> results[p].content]
    /\ pc = "downloaded" =>
          artifact = IF saveAsZip THEN [kind |-> "zip", entries |-> zip]
                     ELSE [kind |-> "text", sections |-> novelText]
    /\ ~EndedNotCancelled =>
          reportContent = NoReport /\ ~reportDownloaded /\ ReportEntries = {}

\* an archive-mode job of two items is seen after the Download button with one
\* chapter entry and the report entry
C24_Witness ==
    /\ pc = "downloaded"
    /\ completedEpisodes = 1
    /\ NumUrls = 2
    /\ saveAsZip
    /\ ReportEntries # {}
    /\ Cardinality(zip) = 2

\* C26: no removeChild is called on a progress modal that is already detached
\* (uncaught counts the calls that throw for that reason), the timer callback
\* of a job that ended without cancellation always gets to show the completion
\* dialog, and a job that has ended has its modal detached.
C26_DetachedOnce ==
    /\ uncaught = 0
    /\ pc # "timer_failed"
    /\ pc \in {"cancelled", "dialog", "downloaded"} => ~modalAttached

\* C27: a job that has left its loop with the outcome of every URL recorded
\* has ended without cancellation and has built its report, whenever the
\* cancellation flag was set.
C27_AllRecordedCompletes ==
    (LoopExited /\ Len(results) = NumUrls /\ Recorded = NumUrls) =>
        /\ EndedNotCancelled
        /\ reportContent = ReportOf(skippedChapters, incompleteChapters)

\* the archive entries other than the one named as the report
ChapterEntries == {e \in zip : e.name # reportFileName}

\* C28: in archive mode a job that ended without cancellation holds exactly
\* completedEpisodes chapter entries and one report entry: every chapter fetched
\* with success is in the archive under its own name with its own content.
C28_ArchiveHoldsEveryChapter ==
    (saveAsZip /\ EndedNotCancelled) =>
        /\ Cardinality(ChapterEntries) = completedEpisodes
        /\ Cardinality(zip) = completedEpisodes + 1
        /\ \A p \in DOMAIN results :
              IsSuccess(results[p]) =>
                 \E e \in ChapterEntries :
                    /\ e.name = sanitizeFilename(results[p].episodeTitle) \o <<".txt">>
                    /\ e.content = results[p].content

\* what a job holds apart from the number of open confirmation dialogs
JobButConfirm ==
    <<episodeUrlsToProcess, saveAsZip, pc, i, isDownloadCancelled, completedEpisodes,
      skippedChapters, incompleteChapters, novelText, zip, modalAttached, isBusyRef,
      exchange, inflight, fetchLog, results, lastExchange, progressLog,
      delaysElapsed, cancelAt, reportContent, reportDownloaded, artifact,
      notifications, uncaught, statsProgress>>

\* a job that was not cancelled has shown its completion dialog, or has ended
\* because the archiving library did not load
RanToCompletion == pc \in {"dialog", "downloaded", "setup_failed"}

\* C29: the flag changes only in a step that closes a confirmation dialog, and
\* then it becomes set; the step that opens a dialog (the click on the close
\* button) and a step that closes one without detaching the modal (the
\* confirmation declined) change nothing else of the job; while a dialog is
\* open during the loop the job's next step can be taken; and a job whose flag
\* is never set runs to completion.
C29_CloseDoesNotCancel ==
    /\ [][/\ isDownloadCancelled' # isDownloadCancelled =>
                /\ confirmOpen' = confirmOpen - 1
                /\ isDownloadCancelled'
          /\ confirmOpen' = confirmOpen + 1 => UNCHANGED JobButConfirm
          /\ (/\ confirmOpen' = confirmOpen - 1
              /\ modalAttached' = modalAttached
              /\ uncaught' = uncaught) => UNCHANGED JobButConfirm]_vars
    /\ []((confirmOpen > 0 /\ InLoop) => ENABLED JobStep)
    /\ <>(isDownloadCancelled \/ RanToCompletion)

\* the second item has been recorded while a confirmation dialog is open and
\* the flag is not set
C29_Witness ==
    /\ confirmOpen > 0
    /\ ~isDownloadCancelled
    /\ pc = "delay"
    /\ Len(results) = 2

\* the index read at step k of a range that starts at index first
CountDown(first, n) == [k \in 1..n |-> first - (k - 1)]

\* C30: a range that passed the test of the range dialog has
\* 1 <= start <= end <= N; the save option then reads the indices N - start,
\* N - start - 1, ..., N - end and no other, all of them within 0..N-1, never
\* throws, and hands to the job the links read that start with
\* "https://booktoki", in the order read: end - start + 1 of them when all
\* pass.  A link that fails the test is in no list of the job, which starts
\* with empty skipped and incomplete lists.
C30_RangeHandedOver ==
    /\ call # "threw"
    /\ call \in {"downloadNovel", "processDownloadCore"} =>
          /\ ~callArgs.startEpisode.nan /\ ~callArgs.endEpisode.nan
          /\ 1 <= callArgs.startEpisode.n
          /\ callArgs.startEpisode.n <= callArgs.endEpisode.n
          /\ callArgs.endEpisode.n <= Len(callArgs.allEpisodeLinks)
    /\ call = "processDownloadCore" =>
          LET N     == Len(callArgs.allEpisodeLinks)
              start == callArgs.startEpisode.n
              end   == callArgs.endEpisode.n
              read  == [k \in 1..(end - start + 1) |->
                           callArgs.allEpisodeLinks[N - start - (k - 1) + 1]]
          IN  /\ callResult.reads = CountDown(N - start, end - start + 1)
              /\ \A k \in DOMAIN callResult.reads : callResult.reads[k] \in 0..(N - 1)
              /\ episodeUrlsToProcess =
                    SelectSeq(read, LAMBDA l : l \in Urls)
              /\ (\A k \in DOMAIN read : read[k] # OtherLink) =>
                    /\ Len(episodeUrlsToProcess) = end - start + 1
                    /\ episodeUrlsToProcess = read
              /\ callResult.warned = SelectSeq(read, LAMBDA l : l = OtherLink)
              /\ \A k \in DOMAIN episodeUrlsToProcess :
                    episodeUrlsToProcess[k] # OtherLink
              /\ skippedChapters = <<>>
              /\ incompleteChapters = <<>>
              /\ pc = "init"

\* the range 1..3 of three links, the middle one not a booktoki address: two
\* links are handed over, the last of the list first
C30_Witness ==
    /\ call = "processDownloadCore"
    /\ Len(callArgs.allEpisodeLinks) = 3
    /\ callArgs.allEpisodeLinks[2] = OtherLink
    /\ callArgs.startEpisode.n = 1
    /\ callArgs.endEpisode.n = 3
    /\ episodeUrlsToProcess = <<callArgs.allEpisodeLinks[3], callArgs.allEpisodeLinks[1]>>

\* text holds a "<" with a ">" somewhere after it
HasTag(text) ==
    \E p \in DOMAIN text : text[p] = "<" /\ IndexFrom(text, p + 1, ">") # 0

\* the lines of a cleaned text that are not blank
Paragraphs(cleaned) == SelectSeq(Split(cleaned), LAMBDA line : line # <<>>)

\* a markup of tags and text, without angle brackets that stand alone
TagsAndText(pieces) == \A k \in DOMAIN pieces : pieces[k] \notin Brackets

Before(pieces, k) == Flatten(SubSeq(pieces, 1, k - 1))
After(pieces, k) == Flatten(SubSeq(pieces, k + 1, Len(pieces)))

\* C25: for every markup, (a) the text after the removal of tags holds no tag,
\* and neither does the result when the markup holds no escaped angle bracket;
\* (b) the result is empty or a list of lines that are not empty and begin and
\* end with no white space, with one empty line between two of them and no
\* line break before the first or after the last; (c) in a markup of tags and
\* text a paragraph tag or line break separates lines: the result is made of
\* the lines of what stands before it followed by the lines of what stands
\* after it; (d) an image stands in the result as the placeholder; (e) the
\* markup "<p>Hello</p><br/><img src=x>" gives "Hello", an empty line and the
\* placeholder.
C25_CleanText ==
    call = "cleaned" =>
        LET cleaned == callResult.cleaned
            lines   == Split(cleaned)
        IN  /\ ~HasTag(callResult.stripped)
            /\ (\A k \in DOMAIN callArgs : "&" \notin {callArgs[k][j] : j \in DOMAIN callArgs[k]})
                  => ~HasTag(cleaned)
            /\ cleaned # <<>> =>
                  /\ Len(lines) % 2 = 1
                  /\ \A k \in DOMAIN lines :
                        IF k % 2 = 1
                        THEN /\ lines[k] # <<>>
                             /\ Head(lines[k]) \notin Whitespace
                             /\ lines[k][Len(lines[k])] \notin Whitespace
                        ELSE lines[k] = <<>>
            /\ \A k \in DOMAIN callArgs :
                  (TagsAndText(callArgs) /\ callArgs[k] \in ParagraphTags \cup LineBreaks) =>
                      cleaned = Join(Paragraphs(cleanText(Before(callArgs, k)))
                                     \o Paragraphs(cleanText(After(callArgs, k))))
            /\ \A k \in DOMAIN callArgs :
                  (TagsAndText(callArgs) /\ callArgs[k] \in Images) =>
                      cleaned = cleanText(Before(callArgs, k) \o ImageSkipped
                                          \o After(callArgs, k))
            /\ callArgs = ExampleMarkup =>
                  cleaned = <<"H", "e", "l", "l", "o", "\n", "\n">> \o ImageSkipped

====
